---------------------------- MODULE Spec2Model ----------------------------
(***************************************************************************)
(* The avatar thumbnail server: request handler threads (src/main.rs       *)
(* 300-408) build a RenderRequest, push it on the work channel and block   *)
(* on a per-request reply channel; the single render thread (the display   *)
(* loop, src/main.rs 411-491) pops one request per frame, composes the     *)
(* scene (render_scene, src/main.rs 50-247), encodes it and replies.       *)
(*                                                                         *)
(* request_time and last_request_time feed only the latency log line and   *)
(* are left out; log output itself is not state.                           *)
(***************************************************************************)
EXTENDS Integers, Sequences, FiniteSets, TLC

\* ------------------------------------------------------------------ bounds

\* Number of concurrent request-handling threads of the concurrent model.
NumHandlers == 2

\* ------------------------------------------------------- Option and Result

None == <<>>
Some(x) == <<x>>
IsSome(o) == o # <<>>
Unwrap(o) == o[1]

\* unwrap_or_default with an absent colour becoming the neutral BFBFBF.
unwrap_or_neutral(o) == IF IsSome(o) THEN Unwrap(o) ELSE 12566463

\* Option<u32>::unwrap_or_default(): the default of u32 is 0.
unwrap_or_default_u32(o) == IF IsSome(o) THEN Unwrap(o) ELSE 0

\* unwrap_or_default with an absent string becoming the shirt image's name.
unwrap_or_shirt(o) == IF IsSome(o) THEN Unwrap(o) ELSE "shirt.png"

\* Option<String>::unwrap_or_default(): the default of String is "".
unwrap_or_default_str(o) == IF IsSome(o) THEN Unwrap(o) ELSE ""

\* ------------------------------------------------------------ colour maths

from_hex(hex) ==
  << (hex \div 65536) % 256, (hex \div 256) % 256, hex % 256, 255 >>

\* recolor_pixel with the blend rounded to the nearest integer.
recolor_pixel_rounded(p, hex_color) ==
  LET bg_r == (hex_color \div 65536) % 256
      bg_g == (hex_color \div 256) % 256
      bg_b == hex_color % 256
      alpha == p[4]
      inv_alpha == 255 - alpha
  IN  IF alpha = 255 THEN p
      ELSE IF alpha = 0 THEN << bg_r % 256, bg_g % 256, bg_b % 256, 255 >>
      ELSE << ((p[1] * alpha + bg_r * inv_alpha + 127) \div 255) % 256,
              ((p[2] * alpha + bg_g * inv_alpha + 127) \div 255) % 256,
              ((p[3] * alpha + bg_b * inv_alpha + 127) \div 255) % 256,
              255 >>

\* recolor_pixel with a blended pixel keeping its alpha.
recolor_pixel_keeps_alpha(p, hex_color) ==
  LET bg_r == (hex_color \div 65536) % 256
      bg_g == (hex_color \div 256) % 256
      bg_b == hex_color % 256
      alpha == p[4]
      inv_alpha == 255 - alpha
  IN  IF alpha = 255 THEN p
      ELSE IF alpha = 0 THEN << bg_r % 256, bg_g % 256, bg_b % 256, 255 >>
      ELSE << ((p[1] * alpha + bg_r * inv_alpha) \div 255) % 256,
              ((p[2] * alpha + bg_g * inv_alpha) \div 255) % 256,
              ((p[3] * alpha + bg_b * inv_alpha) \div 255) % 256,
              alpha >>

\* One 4-byte chunk of replace_transparent_with_color's loop body.
recolor_pixel(p, hex_color) ==
  LET bg_r == (hex_color \div 65536) % 256
      bg_g == (hex_color \div 256) % 256
      bg_b == hex_color % 256
      alpha == p[4]
      inv_alpha == 255 - alpha
  IN  IF alpha = 255 THEN p
      ELSE IF alpha = 0 THEN << bg_r % 256, bg_g % 256, bg_b % 256, 255 >>
      ELSE << ((p[1] * alpha + bg_r * inv_alpha) \div 255) % 256,
              ((p[2] * alpha + bg_g * inv_alpha) \div 255) % 256,
              ((p[3] * alpha + bg_b * inv_alpha) \div 255) % 256,
              255 >>

\* chunks_exact_mut(4): whole 4-byte chunks are rewritten, a shorter tail is
\* left as it is.
RECURSIVE replace_transparent_with_color(_, _)
replace_transparent_with_color(bytes, hex_color) ==
  IF Len(bytes) < 4 THEN bytes
  ELSE recolor_pixel(SubSeq(bytes, 1, 4), hex_color)
         \o replace_transparent_with_color(SubSeq(bytes, 5, Len(bytes)), hex_color)

from_brickcolor(id) ==
  CASE id = 1003 -> Some(1118481)
    [] id = 148 -> Some(5724247)
    [] id = 2 -> Some(10593698)
    [] id = 1002 -> Some(13487565)
    [] id = 40 -> Some(15527148)
    [] id = 1001 -> Some(16316664)
    [] id = 348 -> Some(15592170)
    [] id = 349 -> Some(15325914)
    [] id = 1025 -> Some(16763337)
    [] id = 337 -> Some(16749716)
    [] id = 344 -> Some(9852245)
    [] id = 1007 -> Some(10701643)
    [] id = 350 -> Some(8928830)
    [] id = 339 -> Some(5645348)
    [] id = 331 -> Some(16734553)
    [] id = 332 -> Some(7667712)
    [] id = 327 -> Some(9895936)
    [] id = 1004 -> Some(16711680)
    [] id = 360 -> Some(9856870)
    [] id = 338 -> Some(12478562)
    [] id = 153 -> Some(9795959)
    [] id = 41 -> Some(13456459)
    [] id = 21 -> Some(12855324)
    [] id = 101 -> Some(14321274)
    [] id = 47 -> Some(14255468)
    [] id = 176 -> Some(9922907)
    [] id = 100 -> Some(15647926)
    [] id = 123 -> Some(13856588)
    [] id = 216 -> Some(9456682)
    [] id = 345 -> Some(9391146)
    [] id = 193 -> Some(13590564)
    [] id = 133 -> Some(13988669)
    [] id = 192 -> Some(6897704)
    [] id = 18 -> Some(13405801)
    [] id = 361 -> Some(5653046)
    [] id = 359 -> Some(11506819)
    [] id = 128 -> Some(11434585)
    [] id = 38 -> Some(10510133)
    [] id = 355 -> Some(7100491)
    [] id = 217 -> Some(8150086)
    [] id = 364 -> Some(5917762)
    [] id = 137 -> Some(14719076)
    [] id = 125 -> Some(15382674)
    [] id = 25 -> Some(6440754)
    [] id = 106 -> Some(14320961)
    [] id = 12 -> Some(13337666)
    [] id = 178 -> Some(11830357)
    [] id = 365 -> Some(6961417)
    [] id = 1014 -> Some(11162880)
    [] id = 1030 -> Some(16764057)
    [] id = 168 -> Some(7695458)
    [] id = 225 -> Some(15448191)
    [] id = 105 -> Some(14850880)
    [] id = 121 -> Some(15182936)
    [] id = 36 -> Some(15978395)
    [] id = 127 -> Some(14466177)
    [] id = 362 -> Some(8284223)
    [] id = 351 -> Some(12360541)
    [] id = 356 -> Some(10519631)
    [] id = 346 -> Some(13876886)
    [] id = 352 -> Some(13085816)
    [] id = 224 -> Some(15783328)
    [] id = 180 -> Some(14133579)
    [] id = 191 -> Some(15248173)
    [] id = 108 -> Some(6839363)
    [] id = 138 -> Some(9800307)
    [] id = 209 -> Some(11570756)
    [] id = 1017 -> Some(16756480)
    [] id = 1005 -> Some(16756736)
    [] id = 333 -> Some(15710264)
    [] id = 5 -> Some(14140826)
    [] id = 353 -> Some(13287331)
    [] id = 340 -> Some(15853511)
    [] id = 334 -> Some(16308589)
    [] id = 24 -> Some(16108848)
    [] id = 190 -> Some(16373294)
    [] id = 226 -> Some(16640653)
    [] id = 3 -> Some(16378265)
    [] id = 341 -> Some(16708539)
    [] id = 347 -> Some(14867644)
    [] id = 157 -> Some(16774779)
    [] id = 49 -> Some(16314756)
    [] id = 44 -> Some(16249229)
    [] id = 1008 -> Some(12697154)
    [] id = 1029 -> Some(16777164)
    [] id = 1009 -> Some(16776960)
    [] id = 134 -> Some(14212438)
    [] id = 115 -> Some(13095484)
    [] id = 200 -> Some(8555101)
    [] id = 120 -> Some(14279847)
    [] id = 119 -> Some(10796359)
    [] id = 1022 -> Some(8359524)
    [] id = 319 -> Some(12174513)
    [] id = 324 -> Some(11058585)
    [] id = 29 -> Some(10601612)
    [] id = 1021 -> Some(3833109)
    [] id = 317 -> Some(8166507)
    [] id = 323 -> Some(9748097)
    [] id = 6 -> Some(12769976)
    [] id = 304 -> Some(2909469)
    [] id = 310 -> Some(6003276)
    [] id = 328 -> Some(11658662)
    [] id = 318 -> Some(9087877)
    [] id = 313 -> Some(2064413)
    [] id = 1028 -> Some(13434828)
    [] id = 37 -> Some(4953931)
    [] id = 1020 -> Some(65280)
    [] id = 309 -> Some(3444288)
    [] id = 301 -> Some(5270868)
    [] id = 48 -> Some(8697485)
    [] id = 141 -> Some(2573869)
    [] id = 210 -> Some(7378296)
    [] id = 28 -> Some(2654023)
    [] id = 151 -> Some(7901314)
    [] id = 1027 -> Some(10482665)
    [] id = 1018 -> Some(1240788)
    [] id = 118 -> Some(12048341)
    [] id = 1019 -> Some(65535)
    [] id = 107 -> Some(36764)
    [] id = 116 -> Some(5612975)
    [] id = 1013 -> Some(307180)
    [] id = 315 -> Some(625103)
    [] id = 232 -> Some(8240093)
    [] id = 11 -> Some(8436700)
    [] id = 42 -> Some(12705776)
    [] id = 329 -> Some(10011355)
    [] id = 45 -> Some(11850468)
    [] id = 23 -> Some(879020)
    [] id = 26 -> Some(1780277)
    [] id = 1024 -> Some(11525631)
    [] id = 43 -> Some(8107752)
    [] id = 212 -> Some(10470377)
    [] id = 140 -> Some(2112086)
    [] id = 143 -> Some(13624055)
    [] id = 306 -> Some(3364994)
    [] id = 102 -> Some(7248330)
    [] id = 305 -> Some(5405870)
    [] id = 336 -> Some(13096164)
    [] id = 135 -> Some(7636637)
    [] id = 314 -> Some(10464704)
    [] id = 145 -> Some(7964833)
    [] id = 195 -> Some(4614052)
    [] id = 196 -> Some(2312075)
    [] id = 1012 -> Some(2184377)
    [] id = 1011 -> Some(8288)
    [] id = 213 -> Some(7111095)
    [] id = 149 -> Some(1449266)
    [] id = 110 -> Some(4412563)
    [] id = 112 -> Some(6845612)
    [] id = 307 -> Some(1059548)
    [] id = 303 -> Some(4272)
    [] id = 220 -> Some(10987982)
    [] id = 126 -> Some(10855883)
    [] id = 1010 -> Some(255)
    [] id = 1026 -> Some(11642879)
    [] id = 268 -> Some(3418997)
    [] id = 219 -> Some(7037595)
    [] id = 1031 -> Some(6432209)
    [] id = 308 -> Some(4003205)
    [] id = 1006 -> Some(11829503)
    [] id = 1023 -> Some(9198495)
    [] id = 104 -> Some(7025276)
    [] id = 218 -> Some(9859231)
    [] id = 322 -> Some(8073083)
    [] id = 312 -> Some(5841497)
    [] id = 316 -> Some(8061051)
    [] id = 1015 -> Some(11141290)
    [] id = 198 -> Some(9323141)
    [] id = 321 -> Some(10968731)
    [] id = 1032 -> Some(16711871)
    [] id = 124 -> Some(9582968)
    [] id = 1016 -> Some(16737996)
    [] id = 343 -> Some(13930685)
    [] id = 330 -> Some(16750812)
    [] id = 342 -> Some(14725840)
    [] id = 22 -> Some(12873888)
    [] id = 221 -> Some(13460120)
    [] id = 158 -> Some(14787778)
    [] id = 222 -> Some(14986696)
    [] id = 113 -> Some(15052232)
    [] id = 9 -> Some(15252168)
    [] id = 223 -> Some(14454933)
    [] OTHER -> None

\* BodyColors::default()
DefaultBodyColors ==
  [trso |-> 1001, head |-> 1001, lleg |-> 1001,
   larm |-> 1001, rarm |-> 1001, rleg |-> 1001]

\* The thumbnail palette of the job_type 2 arm.
ThumbnailColors ==
  [trso |-> 12566463, head |-> 12566463, lleg |-> 12566463,
   larm |-> 12566463, rarm |-> 12566463, rleg |-> 12566463]

\* The job_type 1 arm's HexBodyColors.
ResolveColors(body_colors) ==
  [head |-> unwrap_or_default_u32(from_brickcolor(body_colors.head)),
   trso |-> unwrap_or_default_u32(from_brickcolor(body_colors.trso)),
   larm |-> unwrap_or_default_u32(from_brickcolor(body_colors.larm)),
   rarm |-> unwrap_or_default_u32(from_brickcolor(body_colors.rarm)),
   lleg |-> unwrap_or_default_u32(from_brickcolor(body_colors.lleg)),
   rleg |-> unwrap_or_default_u32(from_brickcolor(body_colors.rleg))]

\* ------------------------------------------------------------ file system

BASE_HTTP_PATH == "/srv/http"

\* format!("{}/{}", BASE_HTTP_PATH, loc)
FullPath(loc) == << BASE_HTTP_PATH, loc >>

\* The default face, a path relative to the working directory.
FacePath == << ".", "src/face.png" >>

\* The files the model's asset root holds.  kind: "image" decodes as an
\* image, "mesh" is an OBJ file with at least one mesh, "emptyobj" is an OBJ
\* file with none, "corrupt" exists and decodes as neither, "dir" is a
\* directory.  Every other path does not exist.
Files ==
  (FacePath :> [kind |-> "image", w |-> 2, h |-> 1,
                bytes |-> << 0, 0, 0, 0, 20, 20, 20, 255 >>])
  @@ (FullPath("") :> [kind |-> "dir"])
  @@ (FullPath("shirt.png") :> [kind |-> "image", w |-> 2, h |-> 1,
                bytes |-> << 200, 100, 50, 128, 9, 9, 9, 0 >>])
  @@ (FullPath("pants.png") :> [kind |-> "image", w |-> 1, h |-> 1,
                bytes |-> << 10, 20, 30, 255 >>])
  @@ (FullPath("face2.png") :> [kind |-> "image", w |-> 1, h |-> 1,
                bytes |-> << 255, 255, 0, 64 >>])
  @@ (FullPath("tee.png") :> [kind |-> "image", w |-> 1, h |-> 1,
                bytes |-> << 1, 2, 3, 0 >>])
  @@ (FullPath("tee2.png") :> [kind |-> "image", w |-> 1, h |-> 1,
                bytes |-> << 50, 60, 70, 200 >>])
  @@ (FullPath("hat.png") :> [kind |-> "image", w |-> 1, h |-> 1,
                bytes |-> << 7, 7, 7, 255 >>])
  @@ (FullPath("corrupt.png") :> [kind |-> "corrupt"])
  @@ (FullPath("hat.obj") :> [kind |-> "mesh", mesh |-> "hat.obj#0"])
  @@ (FullPath("head2.obj") :> [kind |-> "mesh", mesh |-> "head2.obj#0"])
  @@ (FullPath("head3.obj") :> [kind |-> "mesh", mesh |-> "head3.obj#0"])
  @@ (FullPath("empty.obj") :> [kind |-> "emptyobj"])

\* The working directory holds src/face.png: the one file the server reads
\* through a relative path, so its presence depends on where it is started.
VARIABLE faceFile

Exists(path) == path \in DOMAIN Files /\ (path = FacePath => faceFile)

FileKind(path) == IF Exists(path) THEN Files[path].kind ELSE "missing"

\* process_img: Ok((width, height, rgba bytes)) or Err.
process_img(path) ==
  IF FileKind(path) = "image"
  THEN [ok |-> TRUE, w |-> Files[path].w, h |-> Files[path].h,
        bytes |-> Files[path].bytes]
  ELSE [ok |-> FALSE]

\* Texture2D::from_rgba8(w as u16, h as u16, bytes)
from_rgba8(w, h, bytes) == << "rgba8", w % 65536, h % 65536, bytes >>

\* Texture2D::from_file_with_format(include_bytes!("checker.png"), None)
CheckerTexture == << "file", "checker.png" >>

\* tobj::load_obj on a path, then the first mesh: Some(mesh) or None.
load_static_mesh(path) ==
  IF FileKind(path) = "mesh" THEN Some(Files[path].mesh) ELSE None

\* process_mesh: the geometry of the tobj mesh with the texture attached.
process_mesh(mesh, texture) == [geom |-> mesh, texture |-> texture]

\* load_resources_and_mesh failing when the texture does not load.
load_resources_and_mesh_strict(mesh_filename, texture_filename) ==
  LET img_path == FullPath(texture_filename)
      mesh_full_path == FullPath(mesh_filename)
      img == process_img(img_path)
  IN  IF FileKind(mesh_full_path) = "mesh" /\ Exists(img_path) /\ img.ok
      THEN [ok |-> TRUE,
            mesh |-> process_mesh(Files[mesh_full_path].mesh,
                                  from_rgba8(img.w, img.h, img.bytes))]
      ELSE [ok |-> FALSE]

\* load_resources_and_mesh: Ok(mesh) or Err.
load_resources_and_mesh(mesh_filename, texture_filename) ==
  LET img_path == FullPath(texture_filename)
      mesh_full_path == FullPath(mesh_filename)
      img == process_img(img_path)
      texture == IF Exists(img_path)
                 THEN IF img.ok THEN from_rgba8(img.w, img.h, img.bytes)
                      ELSE CheckerTexture
                 ELSE CheckerTexture
  IN  IF FileKind(mesh_full_path) = "mesh"
      THEN [ok |-> TRUE, mesh |-> process_mesh(Files[mesh_full_path].mesh, texture)]
      ELSE [ok |-> FALSE]

\* The StaticMeshes value main builds from the embedded OBJ files.
LoadedStaticMeshes ==
  [head |-> Some("default"), rarm |-> Some("rightarm"),
   larm |-> Some("leftarm"), rleg |-> Some("rightleg"),
   lleg |-> Some("leftleg"), trso |-> Some("torso"),
   tshirt |-> Some("tshirt")]

\* ----------------------------------------------------------- render_scene

\* SceneLocals with the two arms' flat textures built from each other's
\* colour.
SceneLocalsArmsSwapped(accessories, colors, meshes) ==
  LET face == process_img(FacePath)
  IN  [colors |-> colors,
       face_texture |->
         IF face.ok
         THEN from_rgba8(face.w, face.h,
                         replace_transparent_with_color(face.bytes, colors.head))
         ELSE from_rgba8(1, 1, << 255, 0, 0, 255 >>),
       head_mesh_data |-> meshes.head,
       rarm_mesh_data |-> meshes.rarm,
       larm_mesh_data |-> meshes.larm,
       rleg_mesh_data |-> meshes.rleg,
       lleg_mesh_data |-> meshes.lleg,
       trso_mesh_data |-> meshes.trso,
       rarm_texture |-> from_rgba8(1, 1, from_hex(colors.larm)),
       larm_texture |-> from_rgba8(1, 1, from_hex(colors.rarm)),
       rleg_texture |-> from_rgba8(1, 1, from_hex(colors.rleg)),
       lleg_texture |-> from_rgba8(1, 1, from_hex(colors.lleg)),
       trso_texture |-> from_rgba8(1, 1, from_hex(colors.trso)),
       tshirt_meshes |-> << >>,
       todo |-> accessories]

\* render_scene up to the item loop: the locals before the first accessory.
SceneLocals(accessories, colors, meshes) ==
  LET face == process_img(FacePath)
  IN  [colors |-> colors,
       face_texture |->
         IF face.ok
         THEN from_rgba8(face.w, face.h,
                         replace_transparent_with_color(face.bytes, colors.head))
         ELSE from_rgba8(1, 1, << 255, 0, 0, 255 >>),
       head_mesh_data |-> meshes.head,
       rarm_mesh_data |-> meshes.rarm,
       larm_mesh_data |-> meshes.larm,
       rleg_mesh_data |-> meshes.rleg,
       lleg_mesh_data |-> meshes.lleg,
       trso_mesh_data |-> meshes.trso,
       rarm_texture |-> from_rgba8(1, 1, from_hex(colors.rarm)),
       larm_texture |-> from_rgba8(1, 1, from_hex(colors.larm)),
       rleg_texture |-> from_rgba8(1, 1, from_hex(colors.rleg)),
       lleg_texture |-> from_rgba8(1, 1, from_hex(colors.lleg)),
       trso_texture |-> from_rgba8(1, 1, from_hex(colors.trso)),
       tshirt_meshes |-> << >>,
       todo |-> accessories]

\* The draw calls one accessory issues while the loop visits it (the hat arm).
ItemDraws(accessory) ==
  LET loc == unwrap_or_default_str(accessory.location)
      tex_path == unwrap_or_default_str(accessory.texture_path)
      m == load_resources_and_mesh(loc, tex_path)
  IN  IF loc = "" THEN << >>
      ELSE IF accessory.item_type = 9 /\ m.ok THEN << m.mesh >>
      ELSE << >>

\* ItemLocals with a face item that does not load falling back to the red
\* 1x1 texture, as the default face does.
ItemLocalsFaceFallback(s, accessory, meshes) ==
  LET loc == unwrap_or_default_str(accessory.location)
      img == process_img(FullPath(loc))
      new_mesh == load_static_mesh(FullPath(loc))
      t == accessory.item_type
  IN  IF loc = "" THEN s
      ELSE IF t = 8 THEN
        IF IsSome(new_mesh)
        THEN [s EXCEPT !.head_mesh_data = Some(Unwrap(new_mesh))]
        ELSE s
      ELSE IF t = 7 THEN
        IF img.ok
        THEN [s EXCEPT !.face_texture =
                from_rgba8(img.w, img.h,
                  replace_transparent_with_color(img.bytes, s.colors.head))]
        ELSE [s EXCEPT !.face_texture = from_rgba8(1, 1, << 255, 0, 0, 255 >>)]
      ELSE IF t = 6 THEN
        IF img.ok
        THEN [s EXCEPT
                !.rleg_texture = from_rgba8(img.w, img.h,
                  replace_transparent_with_color(img.bytes, s.colors.rleg)),
                !.lleg_texture = from_rgba8(img.w, img.h,
                  replace_transparent_with_color(img.bytes, s.colors.lleg))]
        ELSE s
      ELSE IF t = 5 THEN
        IF img.ok
        THEN [s EXCEPT
                !.trso_texture = from_rgba8(img.w, img.h,
                  replace_transparent_with_color(img.bytes, s.colors.trso)),
                !.rarm_texture = from_rgba8(img.w, img.h,
                  replace_transparent_with_color(img.bytes, s.colors.rarm)),
                !.larm_texture = from_rgba8(img.w, img.h,
                  replace_transparent_with_color(img.bytes, s.colors.larm))]
        ELSE s
      ELSE IF t = 4 THEN
        IF img.ok /\ IsSome(meshes.tshirt)
        THEN [s EXCEPT !.tshirt_meshes =
                Append(@, process_mesh(Unwrap(meshes.tshirt),
                                       from_rgba8(img.w, img.h, img.bytes)))]
        ELSE s
      ELSE s

\* ItemLocals with the shirt composited on the torso colour for the arms
\* too.
ItemLocalsArmsOnTorso(s, accessory, meshes) ==
  LET loc == unwrap_or_default_str(accessory.location)
      img == process_img(FullPath(loc))
      new_mesh == load_static_mesh(FullPath(loc))
      t == accessory.item_type
  IN  IF loc = "" THEN s
      ELSE IF t = 8 THEN
        IF IsSome(new_mesh)
        THEN [s EXCEPT !.head_mesh_data = Some(Unwrap(new_mesh))]
        ELSE s
      ELSE IF t = 7 THEN
        IF img.ok
        THEN [s EXCEPT !.face_texture =
                from_rgba8(img.w, img.h,
                  replace_transparent_with_color(img.bytes, s.colors.head))]
        ELSE s
      ELSE IF t = 6 THEN
        IF img.ok
        THEN [s EXCEPT
                !.rleg_texture = from_rgba8(img.w, img.h,
                  replace_transparent_with_color(img.bytes, s.colors.rleg)),
                !.lleg_texture = from_rgba8(img.w, img.h,
                  replace_transparent_with_color(img.bytes, s.colors.lleg))]
        ELSE s
      ELSE IF t = 5 THEN
        IF img.ok
        THEN [s EXCEPT
                !.trso_texture = from_rgba8(img.w, img.h,
                  replace_transparent_with_color(img.bytes, s.colors.trso)),
                !.rarm_texture = from_rgba8(img.w, img.h,
                  replace_transparent_with_color(img.bytes, s.colors.trso)),
                !.larm_texture = from_rgba8(img.w, img.h,
                  replace_transparent_with_color(img.bytes, s.colors.trso))]
        ELSE s
      ELSE IF t = 4 THEN
        IF img.ok /\ IsSome(meshes.tshirt)
        THEN [s EXCEPT !.tshirt_meshes =
                Append(@, process_mesh(Unwrap(meshes.tshirt),
                                       from_rgba8(img.w, img.h, img.bytes)))]
        ELSE s
      ELSE s

\* ItemLocals with pants textured on the torso as well as on the legs.
ItemLocalsPantsOnTorso(s, accessory, meshes) ==
  LET loc == unwrap_or_default_str(accessory.location)
      img == process_img(FullPath(loc))
      new_mesh == load_static_mesh(FullPath(loc))
      t == accessory.item_type
  IN  IF loc = "" THEN s
      ELSE IF t = 8 THEN
        IF IsSome(new_mesh)
        THEN [s EXCEPT !.head_mesh_data = Some(Unwrap(new_mesh))]
        ELSE s
      ELSE IF t = 7 THEN
        IF img.ok
        THEN [s EXCEPT !.face_texture =
                from_rgba8(img.w, img.h,
                  replace_transparent_with_color(img.bytes, s.colors.head))]
        ELSE s
      ELSE IF t = 6 THEN
        IF img.ok
        THEN [s EXCEPT
                !.rleg_texture = from_rgba8(img.w, img.h,
                  replace_transparent_with_color(img.bytes, s.colors.rleg)),
                !.trso_texture = from_rgba8(img.w, img.h,
                  replace_transparent_with_color(img.bytes, s.colors.trso)),
                !.lleg_texture = from_rgba8(img.w, img.h,
                  replace_transparent_with_color(img.bytes, s.colors.lleg))]
        ELSE s
      ELSE IF t = 5 THEN
        IF img.ok
        THEN [s EXCEPT
                !.trso_texture = from_rgba8(img.w, img.h,
                  replace_transparent_with_color(img.bytes, s.colors.trso)),
                !.rarm_texture = from_rgba8(img.w, img.h,
                  replace_transparent_with_color(img.bytes, s.colors.rarm)),
                !.larm_texture = from_rgba8(img.w, img.h,
                  replace_transparent_with_color(img.bytes, s.colors.larm))]
        ELSE s
      ELSE IF t = 4 THEN
        IF img.ok /\ IsSome(meshes.tshirt)
        THEN [s EXCEPT !.tshirt_meshes =
                Append(@, process_mesh(Unwrap(meshes.tshirt),
                                       from_rgba8(img.w, img.h, img.bytes)))]
        ELSE s
      ELSE s

\* ItemLocals with every type outside 5 to 9 taken as an overlay.
ItemLocalsUnknownAsOverlay(s, accessory, meshes) ==
  LET loc == unwrap_or_default_str(accessory.location)
      img == process_img(FullPath(loc))
      new_mesh == load_static_mesh(FullPath(loc))
      t == accessory.item_type
  IN  IF loc = "" THEN s
      ELSE IF t = 8 THEN
        IF IsSome(new_mesh)
        THEN [s EXCEPT !.head_mesh_data = Some(Unwrap(new_mesh))]
        ELSE s
      ELSE IF t = 7 THEN
        IF img.ok
        THEN [s EXCEPT !.face_texture =
                from_rgba8(img.w, img.h,
                  replace_transparent_with_color(img.bytes, s.colors.head))]
        ELSE s
      ELSE IF t = 6 THEN
        IF img.ok
        THEN [s EXCEPT
                !.rleg_texture = from_rgba8(img.w, img.h,
                  replace_transparent_with_color(img.bytes, s.colors.rleg)),
                !.lleg_texture = from_rgba8(img.w, img.h,
                  replace_transparent_with_color(img.bytes, s.colors.lleg))]
        ELSE s
      ELSE IF t = 5 THEN
        IF img.ok
        THEN [s EXCEPT
                !.trso_texture = from_rgba8(img.w, img.h,
                  replace_transparent_with_color(img.bytes, s.colors.trso)),
                !.rarm_texture = from_rgba8(img.w, img.h,
                  replace_transparent_with_color(img.bytes, s.colors.rarm)),
                !.larm_texture = from_rgba8(img.w, img.h,
                  replace_transparent_with_color(img.bytes, s.colors.larm))]
        ELSE s
      ELSE IF t <= 4 \/ t > 9 THEN
        IF img.ok /\ IsSome(meshes.tshirt)
        THEN [s EXCEPT !.tshirt_meshes =
                Append(@, process_mesh(Unwrap(meshes.tshirt),
                                       from_rgba8(img.w, img.h, img.bytes)))]
        ELSE s
      ELSE s

\* One pass of the item loop over the locals (everything but draw calls).
ItemLocals(s, accessory, meshes) ==
  LET loc == unwrap_or_default_str(accessory.location)
      img == process_img(FullPath(loc))
      new_mesh == load_static_mesh(FullPath(loc))
      t == accessory.item_type
  IN  IF loc = "" THEN s
      ELSE IF t = 8 THEN
        IF IsSome(new_mesh)
        THEN [s EXCEPT !.head_mesh_data = Some(Unwrap(new_mesh))]
        ELSE s
      ELSE IF t = 7 THEN
        IF img.ok
        THEN [s EXCEPT !.face_texture =
                from_rgba8(img.w, img.h,
                  replace_transparent_with_color(img.bytes, s.colors.head))]
        ELSE s
      ELSE IF t = 6 THEN
        IF img.ok
        THEN [s EXCEPT
                !.rleg_texture = from_rgba8(img.w, img.h,
                  replace_transparent_with_color(img.bytes, s.colors.rleg)),
                !.lleg_texture = from_rgba8(img.w, img.h,
                  replace_transparent_with_color(img.bytes, s.colors.lleg))]
        ELSE s
      ELSE IF t = 5 THEN
        IF img.ok
        THEN [s EXCEPT
                !.trso_texture = from_rgba8(img.w, img.h,
                  replace_transparent_with_color(img.bytes, s.colors.trso)),
                !.rarm_texture = from_rgba8(img.w, img.h,
                  replace_transparent_with_color(img.bytes, s.colors.rarm)),
                !.larm_texture = from_rgba8(img.w, img.h,
                  replace_transparent_with_color(img.bytes, s.colors.larm))]
        ELSE s
      ELSE IF t = 4 THEN
        IF img.ok /\ IsSome(meshes.tshirt)
        THEN [s EXCEPT !.tshirt_meshes =
                Append(@, process_mesh(Unwrap(meshes.tshirt),
                                       from_rgba8(img.w, img.h, img.bytes)))]
        ELSE s
      ELSE s

\* The draw calls after the loop: the six body parts, then the overlays.
OptDraw(mesh, texture) ==
  IF IsSome(mesh) THEN << process_mesh(Unwrap(mesh), texture) >> ELSE << >>

\* BaseDraws with the overlays drawn before the body parts.
BaseDrawsOverlaysFirst(s) ==
  s.tshirt_meshes
    \o OptDraw(s.trso_mesh_data, s.trso_texture)
    \o OptDraw(s.rarm_mesh_data, s.rarm_texture)
    \o OptDraw(s.larm_mesh_data, s.larm_texture)
    \o OptDraw(s.head_mesh_data, s.face_texture)
    \o OptDraw(s.lleg_mesh_data, s.lleg_texture)
    \o OptDraw(s.rleg_mesh_data, s.rleg_texture)

BaseDraws(s) ==
  OptDraw(s.trso_mesh_data, s.trso_texture)
    \o OptDraw(s.rarm_mesh_data, s.rarm_texture)
    \o OptDraw(s.larm_mesh_data, s.larm_texture)
    \o OptDraw(s.head_mesh_data, s.face_texture)
    \o OptDraw(s.lleg_mesh_data, s.lleg_texture)
    \o OptDraw(s.rleg_mesh_data, s.rleg_texture)
    \o s.tshirt_meshes

\* render_scene's item loop as a whole: the locals after the last accessory.
RECURSIVE LoopLocals(_, _, _)
LoopLocals(s, accessories, meshes) ==
  IF Len(accessories) = 0 THEN s
  ELSE LoopLocals(ItemLocals(s, Head(accessories), meshes),
                  Tail(accessories), meshes)

\* The draw calls of the item loop as a whole.
RECURSIVE LoopDraws(_)
LoopDraws(accessories) ==
  IF Len(accessories) = 0 THEN << >>
  ELSE ItemDraws(Head(accessories)) \o LoopDraws(Tail(accessories))

\* Every draw call of one render_scene call, in order.
SceneDraws(accessories, colors, meshes) ==
  LoopDraws(accessories)
    \o BaseDraws(LoopLocals(SceneLocals(<< >>, colors, meshes),
                            accessories, meshes))

\* What can go wrong between get_screen_data and the base64 text: RgbaImage::
\* from_raw returns None, write_header fails, write_image_data fails.
EncodeOutcomes == {"ok", "from_raw", "write_header", "write_image_data"}

\* png_data when the encoder block is left: nothing before the header is
\* written, the header alone when the image data could not be written, the
\* header and the (flipped) frame otherwise.
PngData(outcome, drawn) ==
  IF outcome \in {"from_raw", "write_header"} THEN << >>
  ELSE IF outcome = "write_image_data" THEN << "IHDR" >>
  ELSE << "IHDR", [idat |-> drawn] >>

\* base64::engine::general_purpose::STANDARD.encode: text as long as its
\* input is, empty for empty input.
Base64(bytes) == [i \in 1 .. Len(bytes) |-> << "b64", bytes[i] >>]

\* EncodeResult with the failure returns left out: whatever png_data holds is
\* encoded.
EncodeResultPartial(outcome, png_data) == Base64(png_data)

\* The String render_scene returns: String::new() on each failure path, the
\* base64 text of png_data otherwise.
EncodeResult(outcome, png_data) ==
  IF outcome = "ok" THEN Base64(png_data) ELSE << >>

\* String::is_empty
is_empty(s) == Len(s) = 0

\* ------------------------------------------------------------------ inputs

Item(t, loc, tex) == [item_type |-> t, location |-> loc, texture_path |-> tex]

HatGone == Item(9, Some("gone.obj"), Some("gone.png"))
HeadOk == Item(8, Some("head2.obj"), None)

\* The item rows the database can return to a handler of the concurrent model.
ReqItemLists == { << >>, << HeadOk >> }

\* A stored colour profile with an identifier (0) the palette does not hold.
MixedBodyColors ==
  [trso |-> 21, head |-> 0, lleg |-> 1003,
   larm |-> 1001, rarm |-> 1001, rleg |-> 1003]

\* The colour profiles fetch_avatar can return in the concurrent model.
ReqProfiles == { MixedBodyColors }

\* The job_type values a request can carry once parsed as i32.
ReqJobTypes == { 1, 2, 3 }

Handlers == 1 .. NumHandlers

\* ------------------------------------------------------------------- state

VARIABLES
  hpc,            \* handler thread: "idle", "waiting" (in rx_answer.recv), "done"
  hreq,           \* the RenderRequest the handler built, None before
  response,       \* the HTTP response the handler returned, None before
  sender,         \* the handler's tx_answer: "none", "live", "dropped"
  sent,           \* every value sent on the handler's reply channel, in order
  queue,          \* the work channel's buffer (tx_work -> rx_work)
  rxAlive,        \* rx_work has not been dropped
  dpc,            \* render thread position in the display loop
  work,           \* the RenderRequest popped this iteration, None outside
  scene,          \* render_scene's locals, None outside render_scene
  gfx,            \* the graphics context: camera, clear colour, draw calls
  png,            \* the encoder's outcome and png_data, None outside
  result,         \* result_b64, None until render_scene returned
  static_meshes,  \* the StaticMeshes built at startup
  procAlive,      \* the process has not exited
  arrivals,       \* the handlers whose request entered the work channel, in order
  dequeued,       \* the handlers whose request try_recv returned, in order
  recolor         \* a call of replace_transparent_with_color, None outside

vars == << hpc, hreq, response, sender, sent, queue, rxAlive, dpc, work, scene,
           gfx, png, result, static_meshes, procAlive, arrivals, dequeued,
           faceFile, recolor >>

handlerVars == << hpc, hreq, response >>
renderVars == << dpc, work, scene, gfx, png, result >>

Startup ==
  /\ hpc = [h \in Handlers |-> "idle"]
  /\ hreq = [h \in Handlers |-> None]
  /\ response = [h \in Handlers |-> None]
  /\ sender = [h \in Handlers |-> "none"]
  /\ sent = [h \in Handlers |-> << >>]
  /\ queue = << >>
  /\ rxAlive = TRUE
  /\ dpc = "poll"
  /\ work = None
  /\ scene = None
  /\ gfx = [camera |-> "default", clear |-> "none", drawn |-> << >>]
  /\ png = None
  /\ result = None
  /\ static_meshes = LoadedStaticMeshes
  /\ procAlive = TRUE
  /\ arrivals = << >>
  /\ dequeued = << >>

\* The server started where src/face.png is, and no call outside a job.
Init == Startup /\ faceFile = TRUE /\ recolor = None

\* ---------------------------------------------------------------- handlers

\* rouille::Response::text(body).with_status_code(status)
Response(status, body) == [status |-> status, body |-> body]

\* The response of a request that is turned away before a job is built:
\* "form" the form fields are missing, "job_type" and "id" the field is no
\* i32, "kind" the job type is neither 1 nor 2.
RejectResponse(why) ==
  IF why = "form" THEN Response(400, << >>)
  ELSE IF why \in {"job_type", "id"} THEN Response(400, << "Invalid Number" >>)
  ELSE Response(400, << "Invalid job type" >>)

\* The handler returns before building a job.
HandlerReject(h) ==
  /\ procAlive
  /\ hpc[h] = "idle"
  /\ \E why \in {"form", "job_type", "id", "kind"} :
       /\ why = "kind" => \E type_val \in ReqJobTypes : type_val \notin {1, 2}
       /\ response' = [response EXCEPT ![h] = Some(RejectResponse(why))]
  /\ hpc' = [hpc EXCEPT ![h] = "done"]
  /\ UNCHANGED << hreq, sender, sent, queue, rxAlive, renderVars,
                  static_meshes, faceFile, recolor, procAlive, arrivals, dequeued >>

\* Job type 1 and fetch_avatar failed.
HandlerNotFound(h) ==
  /\ procAlive
  /\ hpc[h] = "idle"
  /\ response' = [response EXCEPT ![h] = Some(Response(404, << "User not found" >>))]
  /\ hpc' = [hpc EXCEPT ![h] = "done"]
  /\ UNCHANGED << hreq, sender, sent, queue, rxAlive, renderVars,
                  static_meshes, faceFile, recolor, procAlive, arrivals, dequeued >>

\* The RenderRequest of a job type 1 request.
AvatarRequest(h, bodycolors, accessories) ==
  [accessories |-> accessories, bodycolors |-> Some(bodycolors),
   job_type |-> 1, response_sender |-> h]

\* ThumbnailRequest carrying a job type the dispatcher has no arm for.
ThumbnailRequestOtherKind(h, accessories) ==
  [accessories |-> accessories, bodycolors |-> None,
   job_type |-> 3, response_sender |-> h]

\* The RenderRequest of a job type 2 request.
ThumbnailRequest(h, accessories) ==
  [accessories |-> accessories, bodycolors |-> None,
   job_type |-> 2, response_sender |-> h]

\* tx_work.send(req), then the handler either fails at once (the receiver is
\* gone) or goes on to block in rx_answer.recv().
Submit(h, req) ==
  /\ hreq' = [hreq EXCEPT ![h] = Some(req)]
  /\ IF rxAlive
     THEN /\ queue' = Append(queue, req)
          /\ arrivals' = Append(arrivals, h)
          /\ sender' = [sender EXCEPT ![h] = "live"]
          /\ hpc' = [hpc EXCEPT ![h] = "waiting"]
          /\ UNCHANGED response
     ELSE /\ response' = [response EXCEPT ![h] =
               Some(Response(500, << "Fatal error, server shutting down." >>))]
          /\ sender' = [sender EXCEPT ![h] = "dropped"]
          /\ hpc' = [hpc EXCEPT ![h] = "done"]
          /\ UNCHANGED << queue, arrivals >>
  /\ UNCHANGED << sent, rxAlive, renderVars, static_meshes, faceFile, recolor, procAlive, dequeued >>

\* fetch_accessories_info's rows, or Vec::new() when the query failed.
RowsOrEmpty(dbOk, rows) == IF dbOk THEN rows ELSE << >>

\* A job type 1 request: colours and item rows from the database, then submit.
HandlerAvatar(h, lists, profiles) ==
  /\ procAlive
  /\ hpc[h] = "idle"
  /\ \E bodycolors \in profiles, rows \in lists, dbOk \in BOOLEAN :
       Submit(h, AvatarRequest(h, bodycolors, RowsOrEmpty(dbOk, rows)))

\* HandlerThumbnail with the scene rendered on the handler's own thread.
HandlerThumbnailInline(h, lists) ==
  /\ procAlive
  /\ hpc[h] = "idle"
  /\ \E rows \in lists :
       /\ Len(rows) > 0
       /\ gfx' = [camera |-> "3d", clear |-> "transparent",
                  drawn |-> SceneDraws(<< Head(rows) >>, ThumbnailColors,
                                       static_meshes)]
       /\ response' = [response EXCEPT ![h] =
            Some(Response(200, EncodeResult("ok", PngData("ok", gfx'.drawn))))]
  /\ hpc' = [hpc EXCEPT ![h] = "done"]
  /\ UNCHANGED << hreq, sender, sent, queue, rxAlive, dpc, work, scene, png,
                  result, static_meshes, faceFile, recolor, procAlive, arrivals, dequeued >>

\* A job type 2 request: the item's row from the database, then submit.
HandlerThumbnail(h, lists) ==
  /\ procAlive
  /\ hpc[h] = "idle"
  /\ \E rows \in lists, dbOk \in BOOLEAN :
       Submit(h, ThumbnailRequest(h, RowsOrEmpty(dbOk, rows)))

\* RecvResponse without the is_empty guard: every Ok(text) is a 200.
RecvResponseAnyText(msgs) ==
  IF Len(msgs) > 0
  THEN Response(200, msgs[1])
  ELSE Response(500, << "Render Failed" >>)

\* What the handler makes of rx_answer.recv(): Ok(text) with a text that is
\* not empty is the body of a 200, anything else is a 500.
RecvResponse(msgs) ==
  IF Len(msgs) > 0 /\ ~is_empty(msgs[1])
  THEN Response(200, msgs[1])
  ELSE Response(500, << "Render Failed" >>)

\* rx_answer.recv() returns: a value is in the channel, or the channel is
\* empty and its sender was dropped.
HandlerRecv(h) ==
  /\ procAlive
  /\ hpc[h] = "waiting"
  /\ Len(sent[h]) > 0 \/ sender[h] = "dropped"
  /\ response' = [response EXCEPT ![h] = Some(RecvResponse(sent[h]))]
  /\ hpc' = [hpc EXCEPT ![h] = "done"]
  /\ UNCHANGED << hreq, sender, sent, queue, rxAlive, renderVars,
                  static_meshes, faceFile, recolor, procAlive, arrivals, dequeued >>

\* ------------------------------------------------------------ render thread

\* TryRecv taking the newest request instead of the oldest.
TryRecvNewest ==
  /\ procAlive
  /\ dpc = "poll"
  /\ IF Len(queue) > 0
     THEN /\ work' = Some(queue[Len(queue)])
          /\ queue' = SubSeq(queue, 1, Len(queue) - 1)
          /\ dequeued' = Append(dequeued, queue[Len(queue)].response_sender)
          /\ dpc' = "match"
     ELSE /\ dpc' = "overlay"
          /\ UNCHANGED << work, queue, dequeued >>
  /\ UNCHANGED << handlerVars, sender, sent, rxAlive, scene, gfx, png, result,
                  static_meshes, faceFile, recolor, procAlive, arrivals >>

\* rx_work.try_recv() at the top of the loop body: Ok(work) pops the oldest
\* request, Err (nothing queued) skips to the diagnostic overlay.
TryRecv ==
  /\ procAlive
  /\ dpc = "poll"
  /\ IF Len(queue) > 0
     THEN /\ work' = Some(Head(queue))
          /\ queue' = Tail(queue)
          /\ dequeued' = Append(dequeued, Head(queue).response_sender)
          /\ dpc' = "match"
     ELSE /\ dpc' = "overlay"
          /\ UNCHANGED << work, queue, dequeued >>
  /\ UNCHANGED << handlerVars, sender, sent, rxAlive, scene, gfx, png, result,
                  static_meshes, faceFile, recolor, procAlive, arrivals >>

\* JobArgs with the palette resolved for the first job only: an avatar job
\* after another job gets the neutral palette.
JobArgsRemembering(w) ==
  IF w.job_type = 1
  THEN Some([accessories |-> w.accessories,
             colors |-> IF gfx.clear # "none" THEN ThumbnailColors
                        ELSE ResolveColors(IF IsSome(w.bodycolors)
                                           THEN Unwrap(w.bodycolors)
                                           ELSE DefaultBodyColors)])
  ELSE IF w.job_type = 2
  THEN IF Len(w.accessories) > 0
       THEN Some([accessories |-> << Head(w.accessories) >>,
                  colors |-> ThumbnailColors])
       ELSE None
  ELSE None

\* JobArgs with the whole item list given to a thumbnail job's scene.
JobArgsWholeList(w) ==
  IF w.job_type = 1
  THEN Some([accessories |-> w.accessories,
             colors |-> ResolveColors(IF IsSome(w.bodycolors)
                                      THEN Unwrap(w.bodycolors)
                                      ELSE DefaultBodyColors)])
  ELSE IF w.job_type = 2
  THEN IF Len(w.accessories) > 0
       THEN Some([accessories |-> w.accessories,
                  colors |-> ThumbnailColors])
       ELSE None
  ELSE None

\* The job the match on work.job_type hands to render_scene, None where the
\* arm reaches unreachable!().
JobArgs(w) ==
  IF w.job_type = 1
  THEN Some([accessories |-> w.accessories,
             colors |-> ResolveColors(IF IsSome(w.bodycolors)
                                      THEN Unwrap(w.bodycolors)
                                      ELSE DefaultBodyColors)])
  ELSE IF w.job_type = 2
  THEN IF Len(w.accessories) > 0
       THEN Some([accessories |-> << Head(w.accessories) >>,
                  colors |-> ThumbnailColors])
       ELSE None
  ELSE None

\* render_scene is entered: clear_background, set_camera, the default
\* textures and mesh copies.
BeginRender ==
  /\ procAlive
  /\ dpc = "match"
  /\ IsSome(JobArgs(Unwrap(work)))
  /\ LET job == Unwrap(JobArgs(Unwrap(work)))
     IN  scene' = Some(SceneLocals(job.accessories, job.colors, static_meshes))
  /\ gfx' = [camera |-> "3d", clear |-> "transparent", drawn |-> << >>]
  /\ dpc' = "items"
  /\ UNCHANGED << handlerVars, sender, sent, queue, rxAlive, work, png, result,
                  static_meshes, faceFile, recolor, procAlive, arrivals, dequeued >>

\* The handlers whose reply senders a set of dropped requests held.
SendersOf(reqs) == { reqs[i].response_sender : i \in DOMAIN reqs }

\* unreachable!() in the job type 2 arm (no first accessory) or in the default
\* arm: the render thread panics.  Unwinding drops `work` and with it the
\* job's reply sender; whether the main future, which owns rx_work, is dropped
\* before the process exits is left open.
DispatchPanic ==
  /\ procAlive
  /\ dpc = "match"
  /\ ~IsSome(JobArgs(Unwrap(work)))
  /\ dpc' = "panicked"
  /\ work' = None
  /\ \E dropRx \in BOOLEAN :
       /\ rxAlive' = ~dropRx
       /\ queue' = IF dropRx THEN << >> ELSE queue
       /\ sender' = [h \in Handlers |->
            IF h = Unwrap(work).response_sender
               \/ (dropRx /\ h \in SendersOf(queue))
            THEN "dropped" ELSE sender[h]]
  /\ UNCHANGED << handlerVars, sent, scene, gfx, png, result, static_meshes, faceFile, recolor,
                  procAlive, arrivals, dequeued >>

\* The panic has unwound the main thread: the process exits.
ProcessExit ==
  /\ procAlive
  /\ dpc = "panicked"
  /\ procAlive' = FALSE
  /\ UNCHANGED << handlerVars, sender, sent, queue, rxAlive, dpc, work, scene,
                  gfx, png, result, static_meshes, faceFile, recolor, arrivals, dequeued >>

\* RenderItem visiting the list from its end.
RenderItemFromEnd ==
  /\ procAlive
  /\ dpc = "items"
  /\ Len(Unwrap(scene).todo) > 0
  /\ LET s == Unwrap(scene)
         accessory == s.todo[Len(s.todo)]
     IN  /\ scene' = Some([ItemLocals(s, accessory, static_meshes)
                             EXCEPT !.todo = SubSeq(s.todo, 1, Len(s.todo) - 1)])
         /\ gfx' = [gfx EXCEPT !.drawn = @ \o ItemDraws(accessory)]
  /\ UNCHANGED << handlerVars, sender, sent, queue, rxAlive, dpc, work, png,
                  result, static_meshes, faceFile, recolor, procAlive,
                  arrivals, dequeued >>

\* RenderItem with the head mesh an item selected stored in the static
\* meshes too.
RenderItemCachesHead ==
  /\ procAlive
  /\ dpc = "items"
  /\ Len(Unwrap(scene).todo) > 0
  /\ LET s == Unwrap(scene)
         accessory == Head(s.todo)
     IN  /\ scene' = Some([ItemLocals(s, accessory, static_meshes)
                             EXCEPT !.todo = Tail(s.todo)])
         /\ static_meshes' =
              [static_meshes EXCEPT !.head =
                 ItemLocals(s, accessory, static_meshes).head_mesh_data]
         /\ gfx' = [gfx EXCEPT !.drawn = @ \o ItemDraws(accessory)]
  /\ UNCHANGED << handlerVars, sender, sent, queue, rxAlive, dpc, work, png,
                  result, faceFile, recolor, procAlive, arrivals, dequeued >>

\* One pass of `for accessory in accessories`.
RenderItem ==
  /\ procAlive
  /\ dpc = "items"
  /\ Len(Unwrap(scene).todo) > 0
  /\ LET s == Unwrap(scene)
         accessory == Head(s.todo)
     IN  /\ scene' = Some([ItemLocals(s, accessory, static_meshes)
                             EXCEPT !.todo = Tail(s.todo)])
         /\ gfx' = [gfx EXCEPT !.drawn = @ \o ItemDraws(accessory)]
  /\ UNCHANGED << handlerVars, sender, sent, queue, rxAlive, dpc, work, png, result,
                  static_meshes, faceFile, recolor, procAlive, arrivals, dequeued >>

\* RenderDraw with the body parts and overlays put before the draws the
\* item loop issued.
RenderDrawBodyFirst ==
  /\ procAlive
  /\ dpc = "items"
  /\ Len(Unwrap(scene).todo) = 0
  /\ gfx' = [gfx EXCEPT !.drawn = BaseDraws(Unwrap(scene)) \o @]
  /\ dpc' = "encode"
  /\ UNCHANGED << handlerVars, sender, sent, queue, rxAlive, work, scene,
                  png, result, static_meshes, faceFile, recolor, procAlive,
                  arrivals, dequeued >>

\* After the loop: the six body parts and the overlays are drawn.
RenderDraw ==
  /\ procAlive
  /\ dpc = "items"
  /\ Len(Unwrap(scene).todo) = 0
  /\ gfx' = [gfx EXCEPT !.drawn = @ \o BaseDraws(Unwrap(scene))]
  /\ dpc' = "encode"
  /\ UNCHANGED << handlerVars, sender, sent, queue, rxAlive, work, scene,
                  png, result, static_meshes, faceFile, recolor, procAlive, arrivals, dequeued >>

\* get_screen_data, the flip, the PNG encoder and base64: render_scene returns.
RenderEncode ==
  /\ procAlive
  /\ dpc = "encode"
  /\ \E outcome \in EncodeOutcomes :
       LET png_data == PngData(outcome, gfx.drawn)
       IN  /\ png' = Some([outcome |-> outcome, png_data |-> png_data])
           /\ result' = Some(EncodeResult(outcome, png_data))
  /\ scene' = None
  /\ dpc' = "send"
  /\ UNCHANGED << handlerVars, sender, sent, queue, rxAlive, work, gfx,
                  static_meshes, faceFile, recolor, procAlive, arrivals, dequeued >>

\* SendReply sending the result a second time.
SendReplyTwice ==
  /\ procAlive
  /\ dpc = "send"
  /\ sent' = [sent EXCEPT ![Unwrap(work).response_sender] =
                Append(Append(@, Unwrap(result)), Unwrap(result))]
  /\ png' = None
  /\ result' = None
  /\ dpc' = "finish"
  /\ UNCHANGED << handlerVars, sender, queue, rxAlive, work, scene, gfx,
                  static_meshes, faceFile, recolor, procAlive, arrivals, dequeued >>

\* SendReply answering on the reply channel of the first request popped.
SendReplyToFirst ==
  /\ procAlive
  /\ dpc = "send"
  /\ sent' = [sent EXCEPT ![dequeued[1]] = Append(@, Unwrap(result))]
  /\ png' = None
  /\ result' = None
  /\ dpc' = "finish"
  /\ UNCHANGED << handlerVars, sender, queue, rxAlive, work, scene, gfx,
                  static_meshes, faceFile, recolor, procAlive, arrivals,
                  dequeued >>

\* work.response_sender.send(result_b64)
SendReply ==
  /\ procAlive
  /\ dpc = "send"
  /\ sent' = [sent EXCEPT ![Unwrap(work).response_sender] =
                Append(@, Unwrap(result))]
  /\ png' = None
  /\ result' = None
  /\ dpc' = "finish"
  /\ UNCHANGED << handlerVars, sender, queue, rxAlive, work, scene, gfx,
                  static_meshes, faceFile, recolor, procAlive, arrivals, dequeued >>

\* FinishJob going straight back to try_recv, draining the channel within
\* one frame.
FinishJobDrain ==
  /\ procAlive
  /\ dpc = "finish"
  /\ sender' = [sender EXCEPT ![Unwrap(work).response_sender] = "dropped"]
  /\ work' = None
  /\ dpc' = "poll"
  /\ UNCHANGED << handlerVars, sent, queue, rxAlive, scene, gfx, png, result,
                  static_meshes, faceFile, recolor, procAlive, arrivals, dequeued >>

\* The end of the `if let Ok(work)` block: the latency line is logged and
\* `work`, with its reply sender, goes out of scope.
FinishJob ==
  /\ procAlive
  /\ dpc = "finish"
  /\ sender' = [sender EXCEPT ![Unwrap(work).response_sender] = "dropped"]
  /\ work' = None
  /\ dpc' = "overlay"
  /\ UNCHANGED << handlerVars, sent, queue, rxAlive, scene, gfx, png, result,
                  static_meshes, faceFile, recolor, procAlive, arrivals, dequeued >>

\* draw_text(...) of the diagnostic overlay.
TextDraw(label) == [text |-> label]

\* set_default_camera, clear_background(BLACK) and, when memory_stats()
\* answers, the two diagnostic lines.
DrawOverlay ==
  /\ procAlive
  /\ dpc = "overlay"
  /\ \E usage \in BOOLEAN :
       gfx' = [camera |-> "default", clear |-> "black",
               drawn |-> IF usage THEN << TextDraw("MEM"), TextDraw("SWAP") >>
                         ELSE << >>]
  /\ dpc' = "next_frame"
  /\ UNCHANGED << handlerVars, sender, sent, queue, rxAlive, work, scene,
                  png, result, static_meshes, faceFile, recolor, procAlive, arrivals, dequeued >>

\* next_frame().await: the frame's draw calls are flushed to the screen and
\* the loop starts over with an empty draw list.
NextFrame ==
  /\ procAlive
  /\ dpc = "next_frame"
  /\ gfx' = [gfx EXCEPT !.drawn = << >>]
  /\ dpc' = "poll"
  /\ UNCHANGED << handlerVars, sender, sent, queue, rxAlive, work, scene,
                  png, result, static_meshes, faceFile, recolor, procAlive, arrivals, dequeued >>

Render ==
  \/ TryRecv
  \/ BeginRender
  \/ DispatchPanic
  \/ ProcessExit
  \/ RenderItem
  \/ RenderDraw
  \/ RenderEncode
  \/ SendReply
  \/ FinishJob
  \/ DrawOverlay
  \/ NextFrame

\* ----------------------------------------------------------- specification

Next ==
  \/ \E h \in Handlers : HandlerReject(h)
  \/ \E h \in Handlers : HandlerNotFound(h)
  \/ \E h \in Handlers : HandlerAvatar(h, ReqItemLists, ReqProfiles)
  \/ \E h \in Handlers : HandlerThumbnail(h, ReqItemLists)
  \/ \E h \in Handlers : HandlerRecv(h)
  \/ Render

Spec == Init /\ [][Next]_vars

\* The render thread runs its loop for as long as the process lives, and a
\* handler blocked in recv() returns once a value or a disconnect is there.
Fairness ==
  /\ WF_vars(Render)
  /\ \A h \in Handlers : WF_vars(HandlerRecv(h))

FairSpec == Spec /\ Fairness

\* ------------------------------------------------- the single-job model

\* Longest item list of the single-job model.
MaxItems == 2

\* The items of the single-job model: every item type with an asset that
\* loads and with assets that are missing, undecodable or hold no mesh, an
\* unknown type, and items without a location.
HatOk        == Item(9, Some("hat.obj"), Some("hat.png"))
HatNoTex     == Item(9, Some("hat.obj"), Some("gone.png"))
HatBadTex    == Item(9, Some("hat.obj"), Some("corrupt.png"))
HatNoTexPath == Item(9, Some("hat.obj"), None)
HatEmptyMesh == Item(9, Some("empty.obj"), Some("hat.png"))
HeadGone     == Item(8, Some("gone.obj"), None)
HeadEmpty    == Item(8, Some("empty.obj"), None)
FaceOk       == Item(7, Some("face2.png"), None)
FaceCorrupt  == Item(7, Some("corrupt.png"), None)
PantsOk      == Item(6, Some("pants.png"), None)
PantsGone    == Item(6, Some("gone.png"), None)
ShirtOk      == Item(5, Some("shirt.png"), None)
ShirtCorrupt == Item(5, Some("corrupt.png"), None)
TeeOk        == Item(4, Some("tee.png"), None)
TeeOk2       == Item(4, Some("tee2.png"), None)
TeeGone      == Item(4, Some("gone.png"), None)
UnknownType  == Item(3, Some("tee.png"), None)
ShirtNoLoc   == Item(5, None, None)
HatEmptyLoc  == Item(9, Some(""), Some("hat.png"))
UnknownNoLoc == Item(3, None, None)
UnknownType10 == Item(10, Some("hat.obj"), Some("hat.png"))

SceneItems ==
  { HatOk, HatNoTex, HatBadTex, HatNoTexPath, HatGone, HatEmptyMesh,
    HeadOk, HeadGone, HeadEmpty, FaceOk, FaceCorrupt, PantsOk, PantsGone,
    ShirtOk, ShirtCorrupt, TeeOk, TeeOk2, TeeGone, UnknownType, ShirtNoLoc,
    HatEmptyLoc, UnknownNoLoc, UnknownType10 }

SceneItemLists == UNION { [1 .. n -> SceneItems] : n \in 0 .. MaxItems }

SceneProfiles == { MixedBodyColors }

\* One request, by handler 1, with any of the item lists; the render thread
\* as in Next.
SceneNext ==
  \/ HandlerAvatar(1, SceneItemLists, SceneProfiles)
  \/ HandlerThumbnail(1, SceneItemLists)
  \/ HandlerRecv(1)
  \/ Render

SceneSpec == Init /\ [][SceneNext]_vars

\* ---------------------------------------------------- the override model

\* A second loadable asset for each target an item can override.
HeadOk2  == Item(8, Some("head3.obj"), None)
FaceOk2  == Item(7, Some("tee2.png"), None)
PantsOk2 == Item(6, Some("shirt.png"), None)
ShirtOk2 == Item(5, Some("pants.png"), None)

\* The items of the override model: for the head mesh, the face, the pants
\* and the shirt, two assets that load and one that does not.
OverrideItems ==
  { HeadOk, HeadOk2, HeadGone, FaceOk, FaceOk2, FaceCorrupt,
    PantsOk, PantsOk2, PantsGone, ShirtOk, ShirtOk2, ShirtCorrupt }

OverrideItemLists == UNION { [1 .. n -> OverrideItems] : n \in 0 .. MaxItems }

\* A stored colour profile whose six identifiers resolve to six colours.
DistinctBodyColors ==
  [trso |-> 21, head |-> 24, lleg |-> 23,
   larm |-> 2, rarm |-> 26, rleg |-> 28]

\* A stored colour profile with two identifiers the palette does not hold,
\* the torso's and the left leg's.
UnknownPartsBodyColors ==
  [trso |-> 0, head |-> 24, lleg |-> 65535,
   larm |-> 23, rarm |-> 26, rleg |-> 28]

OverrideProfiles == { DistinctBodyColors, UnknownPartsBodyColors }

\* The server started in any working directory.
OverrideInit == Startup /\ faceFile \in BOOLEAN /\ recolor = None

\* One request, by handler 1, with any list of overriding items; the render
\* thread as in Next.
OverrideNext ==
  \/ HandlerAvatar(1, OverrideItemLists, OverrideProfiles)
  \/ HandlerThumbnail(1, OverrideItemLists)
  \/ HandlerRecv(1)
  \/ Render

OverrideSpec == OverrideInit /\ [][OverrideNext]_vars

\* ------------------------------------------------------ the recolor model

\* The values a colour channel of a pixel takes, and its alpha.
PixelChannels == { 0, 1, 100, 254, 255 }
PixelAlphas == { 0, 1, 127, 128, 254, 255 }

\* The values a channel of the background colour takes.
BgChannels == { 0, 100, 255 }

\* The byte vectors given to replace_transparent_with_color: one pixel.
RecolorInputs ==
  { << r, g, b, a >> : r \in PixelChannels, g \in PixelChannels,
                         b \in PixelChannels, a \in PixelAlphas }

\* The 24-bit background colours given to it.
RecolorColours ==
  { r * 65536 + g * 256 + b : r \in BgChannels, g \in BgChannels,
                                b \in BgChannels }

\* A call of replace_transparent_with_color is about to be made.
RecolorInit ==
  /\ Startup
  /\ faceFile = TRUE
  /\ recolor \in { Some([bytes |-> b, hex_color |-> c, out |-> None]) :
                     b \in RecolorInputs, c \in RecolorColours }

\* The call returns.
RecolorCall ==
  /\ IsSome(recolor)
  /\ Unwrap(recolor).out = None
  /\ recolor' = Some([Unwrap(recolor) EXCEPT !.out =
                  Some(replace_transparent_with_color(Unwrap(recolor).bytes,
                                                      Unwrap(recolor).hex_color))])
  /\ UNCHANGED << handlerVars, renderVars, sender, sent, queue, rxAlive,
                  static_meshes, faceFile, procAlive, arrivals, dequeued >>

RecolorNext == RecolorCall

RecolorSpec == RecolorInit /\ [][RecolorNext]_vars

\* ------------------------------------------------ the recolor-twice model

\* Most whole pixels of a byte vector of the recolor-twice model.
MaxPixels == 2

\* The pixels of its byte vectors: transparent, blended, opaque, nearly
\* transparent.
TwicePixels ==
  { << 10, 20, 30, 0 >>, << 200, 100, 50, 128 >>, << 1, 2, 3, 255 >>,
    << 255, 0, 255, 1 >> }

\* The bytes after the last whole pixel: none, or less than a pixel.
TwiceTails == { << >>, << 7 >>, << 7, 0 >>, << 7, 0, 9 >> }

\* The byte vectors of n whole pixels.
RECURSIVE PixelRows(_)
PixelRows(n) ==
  IF n = 0 THEN { << >> }
  ELSE { p \o row : p \in TwicePixels, row \in PixelRows(n - 1) }

\* The byte vectors given to replace_transparent_with_color: up to
\* MaxPixels whole pixels, then a tail.
TwiceInputs ==
  { row \o tail : row \in UNION { PixelRows(n) : n \in 0 .. MaxPixels },
                  tail \in TwiceTails }

\* A call of replace_transparent_with_color is about to be made, and none
\* on its output yet.
TwiceInit ==
  /\ Startup
  /\ faceFile = TRUE
  /\ recolor \in { Some([bytes |-> b, hex_color |-> c, out |-> None,
                         again |-> None]) :
                     b \in TwiceInputs, c \in RecolorColours }

\* replace_transparent_with_color is called on the output of the first
\* call, with any background colour, and returns.
RecolorAgain ==
  /\ IsSome(recolor)
  /\ IsSome(Unwrap(recolor).out)
  /\ Unwrap(recolor).again = None
  /\ \E c \in RecolorColours :
       recolor' = Some([Unwrap(recolor) EXCEPT !.again =
         Some([hex_color |-> c,
               out |-> replace_transparent_with_color(
                         Unwrap(Unwrap(recolor).out), c)])])
  /\ UNCHANGED << handlerVars, renderVars, sender, sent, queue, rxAlive,
                  static_meshes, faceFile, procAlive, arrivals, dequeued >>

TwiceNext == RecolorCall \/ RecolorAgain

TwiceSpec == TwiceInit /\ [][TwiceNext]_vars

\* ------------------------------------------------------------ properties

\* The handlers whose request entered the work channel.
Submitted == { arrivals[i] : i \in DOMAIN arrivals }

\* The positions of the display loop.
LoopPositions ==
  { "poll", "match", "items", "encode", "send", "finish", "overlay",
    "next_frame" }

\* The handler built a job type 2 request with no item.
EmptyThumbnail(h) ==
  /\ IsSome(hreq[h])
  /\ Unwrap(hreq[h]).job_type = 2
  /\ Len(Unwrap(hreq[h]).accessories) = 0

\* The render thread panicked on the request of handler h.
PanickedOn(h) ==
  /\ dpc = "panicked"
  /\ Len(dequeued) > 0
  /\ dequeued[Len(dequeued)] = h

\* C1: a job of kind 2 with an empty item list is turned into a reported
\* error: the render thread does not panic on it, and once its handler has
\* answered, the answer is an error response made from a reply the render
\* thread sent.
C1_EmptyThumbnailReported ==
  \A h \in Submitted :
    EmptyThumbnail(h) =>
      /\ ~PanickedOn(h)
      /\ hpc[h] = "done" =>
            /\ Unwrap(response[h]).status >= 400
            /\ Len(sent[h]) = 1

\* C2: no job ends the render loop: whatever was dequeued, the render thread
\* stays at a position of the display loop and the process stays alive, so
\* that later jobs are still served.
C2_LoopSurvivesEveryJob ==
  /\ procAlive
  /\ dpc \in LoopPositions

\* C3: at most one value is ever sent on a job's reply channel.
C3_AtMostOneReply ==
  \A h \in Handlers : Len(sent[h]) <= 1

\* C3 witness: a job was replied to, the render thread is done with it, a
\* second job was replied to as well.
C3_Witness ==
  \E a, b \in Handlers :
    /\ a # b
    /\ Len(sent[a]) = 1 /\ sender[a] = "dropped"
    /\ Len(sent[b]) = 1 /\ sender[b] = "dropped"

\* The rendering of the i-th arrival has started.
RenderingStarted(i) ==
  \/ i < Len(dequeued)
  \/ i = Len(dequeued) /\ dpc \notin {"match", "panicked"}

\* C4: jobs are dequeued in arrival order, and when the rendering of a job
\* starts every job that arrived before it has been replied to.
C4_Fifo ==
  /\ Len(dequeued) <= Len(arrivals)
  /\ \A i \in DOMAIN dequeued : dequeued[i] = arrivals[i]
  /\ \A i, j \in DOMAIN arrivals :
       (i < j /\ RenderingStarted(j)) => Len(sent[arrivals[i]]) = 1

\* C4 witness: the second arrival is being rendered, after the first was
\* replied to, both having been pending at the same time.
C4_Witness ==
  /\ Len(arrivals) >= 2
  /\ Len(dequeued) = 2
  /\ dpc = "items"
  /\ Len(sent[arrivals[1]]) = 1

\* The arguments render_scene was called with for the request in `work`.
CurrentJob == Unwrap(JobArgs(Unwrap(work)))

\* The draw calls of the frame while the request in `work` is in progress:
\* those of the accessories the item loop has visited, and after the loop
\* those of the whole scene.
JobDraws ==
  IF dpc = "items"
  THEN LoopDraws(SubSeq(CurrentJob.accessories, 1,
                        Len(CurrentJob.accessories) - Len(Unwrap(scene).todo)))
  ELSE SceneDraws(CurrentJob.accessories, CurrentJob.colors, static_meshes)

\* C5: one job is rendered at a time and only by the render thread: a step
\* that touches the graphics context is no handler's step, a job is popped
\* only when no job is in progress, and while a job is in progress the draw
\* calls of the frame are exactly that job's own.
C5_OneRenderAtATime ==
  /\ [][ /\ gfx' # gfx => handlerVars' = handlerVars
         /\ dequeued' # dequeued => (work = None /\ scene = None /\ result = None)
       ]_vars
  /\ [](dpc \in {"items", "encode", "send", "finish"} =>
          (IsSome(work) /\ gfx.drawn = JobDraws))

\* C5 witness: in the middle of a job's item loop another job is pending and
\* its handler is blocked.
C5_Witness ==
  /\ dpc = "items"
  /\ Len(queue) > 0
  /\ \E h \in Handlers : hpc[h] = "waiting" /\ h # Unwrap(work).response_sender

\* C6: a loop iteration pops the work channel once, without blocking: a pop
\* happens only at the top of the iteration and takes one request, the top is
\* reached again only through next_frame, and with nothing queued the pop
\* falls through to the overlay with no scene, no reply and no draw call.
C6_OnePopPerFrame ==
  /\ [][ /\ dequeued' # dequeued =>
              /\ dpc = "poll"
              /\ Len(dequeued') = Len(dequeued) + 1
              /\ queue' = Tail(queue)
         /\ (dpc' = "poll" /\ dpc # "poll") => dpc = "next_frame"
         /\ (dpc = "poll" /\ dpc' # "poll" /\ Len(queue) = 0) =>
              /\ dpc' = "overlay"
              /\ UNCHANGED << work, scene, gfx, png, result, sent, dequeued >>
         /\ (dpc = "overlay" /\ dpc' # "overlay") =>
              /\ dpc' = "next_frame"
              /\ UNCHANGED << work, scene, png, result, sent, dequeued >>
              /\ \A i \in DOMAIN gfx'.drawn : "text" \in DOMAIN gfx'.drawn[i]
       ]_vars
  /\ []((procAlive /\ dpc = "poll") => ENABLED TryRecv)

\* C6 witness: a job has just been replied to and the iteration goes on to
\* the overlay while another request is still queued.
C6_Witness ==
  /\ dpc = "overlay"
  /\ Len(queue) > 0
  /\ Len(dequeued) > 0

\* C7: a handler that submitted a job has answered only if the render thread
\* sent a reply on that job's channel.
C7_NoResponseWithoutReply ==
  \A h \in Submitted : hpc[h] = "done" => Len(sent[h]) > 0

\* C8: the handler answers 200 with the image text exactly when the reply it
\* received is a text that is not empty; an empty reply becomes the 500
\* "Render Failed" and is never the body of a 200.
C8_EmptyReplyIsError ==
  \A h \in Submitted :
    hpc[h] = "done" =>
      LET r == Unwrap(response[h])
          gotText == Len(sent[h]) > 0 /\ Len(sent[h][1]) > 0
      IN  /\ r.status = 200 <=> gotText
          /\ r.status = 200 => (r.body = sent[h][1] /\ Len(r.body) > 0)
          /\ ~gotText => (r.status = 500 /\ r.body = << "Render Failed" >>)

\* C8 witness: a handler received the empty string and answered 500.
C8_Witness ==
  \E h \in Submitted :
    /\ hpc[h] = "done"
    /\ sent[h] = << << >> >>
    /\ Unwrap(response[h]).status = 500

\* png_data holds the header and the image data.
PngComplete(data) == Len(data) = 2

\* C9: when the capture cannot be turned into an image or the PNG header or
\* data cannot be written, render_scene returns the empty string, never the
\* text of a partial encoding; the reply sent is that result, whatever it is,
\* and the render thread goes on with the loop.
C9_EncodeFailureIsEmptyReply ==
  /\ [](dpc = "send" =>
          /\ Unwrap(png).outcome # "ok" => Unwrap(result) = << >>
          /\ ~PngComplete(Unwrap(png).png_data) => Unwrap(result) = << >>
          /\ Unwrap(png).outcome = "ok" =>
               (PngComplete(Unwrap(png).png_data) /\ Len(Unwrap(result)) = 2))
  /\ [][ /\ (dpc = "send" /\ dpc' # "send") =>
              /\ dpc' = "finish"
              /\ sent' = [sent EXCEPT ![Unwrap(work).response_sender] =
                            Append(@, Unwrap(result))]
         /\ (dpc = "finish" /\ dpc' # "finish") =>
              (dpc' = "overlay" /\ procAlive')
       ]_vars

\* C9 witness: a job whose encoding failed was replied to with the empty
\* string and the next job has been popped.
C9_Witness ==
  /\ Len(dequeued) = 2
  /\ sent[dequeued[1]] = << << >> >>
  /\ dpc = "match"

\* The item has a location and one of the assets it names does not load: the
\* image of a t-shirt, shirt, pants or face item, the mesh of a head swap, the
\* mesh or the texture of a hat.
AssetFails(item) ==
  LET loc == unwrap_or_default_str(item.location)
      tex == unwrap_or_default_str(item.texture_path)
  IN  /\ loc # ""
      /\ \/ item.item_type \in {4, 5, 6, 7} /\ FileKind(FullPath(loc)) # "image"
         \/ item.item_type = 8 /\ FileKind(FullPath(loc)) # "mesh"
         \/ item.item_type = 9 /\ \/ FileKind(FullPath(loc)) # "mesh"
                                  \/ /\ tex # ""
                                     /\ FileKind(FullPath(tex)) # "image"

\* A hat whose mesh loads and whose texture does not.
HatTextureFails(item) ==
  /\ AssetFails(item)
  /\ item.item_type = 9
  /\ FileKind(FullPath(unwrap_or_default_str(item.location))) = "mesh"

\* The items of a list that satisfy no Skip.
Without(items, Skip(_)) == SelectSeq(items, LAMBDA it : ~Skip(it))

\* The geometry of the six body parts (the head possibly swapped).
BodyGeoms ==
  { "torso", "rightarm", "leftarm", "default", "leftleg", "rightleg",
    "head2.obj#0", "head3.obj#0" }

BodyPartDraws(drawn) ==
  { i \in DOMAIN drawn : drawn[i].geom \in BodyGeoms }

\* The render thread is past the draw calls of the request in `work`.
SceneDone == dpc \in {"encode", "send"}

\* C10 as stated: an item with an asset that fails to load has no effect at
\* all: the frame is the frame of the list without every such item.
C10_FailingItemsHaveNoEffect ==
  SceneDone =>
    gfx.drawn = SceneDraws(Without(CurrentJob.accessories, AssetFails),
                           CurrentJob.colors, static_meshes)

\* The item is skipped: one of its assets does not load, the hat with a
\* mesh that loads excepted.
Skipped(item) == AssetFails(item) /\ ~HatTextureFails(item)

\* C10 amended: a failing asset never fails the job.  The frame is the frame
\* of the list without the skipped items, where a hat whose mesh loads is
\* not skipped but drawn with the checker texture when its texture fails;
\* the six body parts are drawn; the items never make the render thread
\* panic; the result is the image text whenever the encoding succeeds.
C10_FailingItemsNeverFailTheJob ==
  /\ SceneDone =>
       /\ gfx.drawn = SceneDraws(Without(CurrentJob.accessories, Skipped),
                                 CurrentJob.colors, static_meshes)
       /\ Cardinality(BodyPartDraws(gfx.drawn)) = 6
       /\ \A i \in DOMAIN CurrentJob.accessories :
            HatTextureFails(CurrentJob.accessories[i]) =>
              \E k \in DOMAIN gfx.drawn :
                gfx.drawn[k] = process_mesh("hat.obj#0", CheckerTexture)
  /\ dpc = "send" =>
       (Unwrap(png).outcome = "ok" => ~is_empty(Unwrap(result)))
  /\ dpc = "panicked" => \E h \in Submitted : EmptyThumbnail(h)

\* C10 witness: a job of two items, the first with an asset that does not
\* load, the second with one that does, is encoded into an image text.
C10_Witness ==
  /\ dpc = "send"
  /\ Unwrap(png).outcome = "ok"
  /\ ~is_empty(Unwrap(result))
  /\ Len(CurrentJob.accessories) = 2
  /\ Skipped(CurrentJob.accessories[1])
  /\ CurrentJob.accessories[2] = ShirtOk

\* A 1x1 opaque texture of the 24-bit colour c.
Flat(c) ==
  << "rgba8", 1, 1, << c \div 65536, (c \div 256) % 256, c % 256, 255 >> >>

\* The default head texture on the head colour c: the image of src/face.png
\* (a transparent pixel, then an opaque one) with the colour showing
\* through, or a red 1x1 texture where the file is not there.
DefaultFaceOn(c) ==
  IF faceFile
  THEN << "rgba8", 2, 1,
          << c \div 65536, (c \div 256) % 256, c % 256, 255,
             20, 20, 20, 255 >> >>
  ELSE << "rgba8", 1, 1, << 255, 0, 0, 255 >> >>

\* The six draws of the default body with the given head texture.
DefaultBody(c, head_texture) ==
  << [geom |-> "torso", texture |-> Flat(c.trso)],
     [geom |-> "rightarm", texture |-> Flat(c.rarm)],
     [geom |-> "leftarm", texture |-> Flat(c.larm)],
     [geom |-> "default", texture |-> head_texture],
     [geom |-> "leftleg", texture |-> Flat(c.lleg)],
     [geom |-> "rightleg", texture |-> Flat(c.rleg)] >>

\* The request in `work` has no item and its draw calls are issued.
EmptyJobDrawn == SceneDone /\ CurrentJob.accessories = << >>

\* C11 as stated: with an empty item list the frame is exactly the six
\* default body-part meshes, each with a flat 1x1 texture of its own
\* resolved colour, and no overlay or hat draw.
C11_EmptyListDrawsSixFlatColours ==
  EmptyJobDrawn =>
    gfx.drawn = DefaultBody(CurrentJob.colors, Flat(CurrentJob.colors.head))

\* C11 amended: with an empty item list the frame is exactly six draws, in
\* the order torso, right arm, left arm, head, left leg, right leg; the
\* torso, the arms and the legs each have the flat 1x1 texture of their own
\* resolved colour, and the head has the default face image composited on
\* the head's resolved colour, or the red 1x1 texture when that image does
\* not load.  No overlay and no hat is drawn.
C11_EmptyListDrawsDefaultBody ==
  EmptyJobDrawn =>
    gfx.drawn = DefaultBody(CurrentJob.colors,
                            DefaultFaceOn(CurrentJob.colors.head))

\* C11 witness: an avatar job without items, its six colours distinct and
\* the default face loaded, has its frame drawn.
C11_Witness ==
  /\ EmptyJobDrawn
  /\ Unwrap(work).job_type = 1
  /\ faceFile
  /\ Len(gfx.drawn) = 6
  /\ Cardinality({ gfx.drawn[i].texture : i \in DOMAIN gfx.drawn }) = 6

\* The body part a drawn geometry is: every head mesh is the head.
PartOf(geom) ==
  IF geom \in {"default", "head2.obj#0", "head3.obj#0"} THEN "head" ELSE geom

\* The positions of the overlay draws in a frame.
OverlayDraws(drawn) == { i \in DOMAIN drawn : drawn[i].geom = "tshirt" }

\* The image of an item whose location holds one, as an unaltered texture.
RawTexture(item) ==
  LET f == Files[FullPath(Unwrap(item.location))]
  IN  << "rgba8", f.w, f.h, f.bytes >>

\* The item is of the given type and its location holds a file of the kind.
Loads(item, type, kind) ==
  /\ item.item_type = type
  /\ IsSome(item.location)
  /\ Unwrap(item.location) # ""
  /\ FileKind(FullPath(Unwrap(item.location))) = kind

\* The overlay items of a list whose image loads, in list order.
LoadedOverlays(items) ==
  SelectSeq(items, LAMBDA it : Loads(it, 4, "image"))

\* C12: in every job the six body parts are drawn in the order torso, right
\* arm, left arm, head, left leg, right leg, and every overlay is drawn
\* after all six, the overlays in the order of their items in the list.
C12_BodyThenOverlaysInListOrder ==
  SceneDone =>
    LET body == SelectSeq(gfx.drawn, LAMBDA m : m.geom \in BodyGeoms)
        over == SelectSeq(gfx.drawn, LAMBDA m : m.geom = "tshirt")
        want == LoadedOverlays(CurrentJob.accessories)
    IN  /\ [i \in DOMAIN body |-> PartOf(body[i].geom)]
             = << "torso", "rightarm", "leftarm", "head", "leftleg",
                  "rightleg" >>
        /\ \A i \in BodyPartDraws(gfx.drawn) :
             \A j \in OverlayDraws(gfx.drawn) : i < j
        /\ [i \in DOMAIN over |-> over[i].texture]
             = [i \in DOMAIN want |-> RawTexture(want[i])]

\* C12 witness: the frame of a job with two different overlays is drawn,
\* the overlay of the first item before the overlay of the second.
C12_Witness ==
  /\ SceneDone
  /\ CurrentJob.accessories = << TeeOk2, TeeOk >>
  /\ Len(gfx.drawn) = 8
  /\ gfx.drawn[7].texture = RawTexture(TeeOk2)
  /\ gfx.drawn[8].texture = RawTexture(TeeOk)

\* The positions of the hat draws in a frame.
HatDraws(drawn) == { i \in DOMAIN drawn : drawn[i].geom = "hat.obj#0" }

\* The hat items of a list whose mesh loads, in list order.
LoadedHats(items) == SelectSeq(items, LAMBDA it : Loads(it, 9, "mesh"))

\* The texture a hat is drawn with: its image, or the checker.
HatTexture(item) ==
  LET tex == IF IsSome(item.texture_path) THEN Unwrap(item.texture_path)
             ELSE ""
  IN  IF FileKind(FullPath(tex)) = "image"
      THEN << "rgba8", Files[FullPath(tex)].w, Files[FullPath(tex)].h,
              Files[FullPath(tex)].bytes >>
      ELSE << "file", "checker.png" >>

\* C13 as stated: hat meshes come last, every hat draw after the six body
\* parts and after every overlay of the job.
C13_HatsDrawnLast ==
  SceneDone =>
    \A h \in HatDraws(gfx.drawn) :
      \A i \in BodyPartDraws(gfx.drawn) \cup OverlayDraws(gfx.drawn) : i < h

\* C13 amended: hat meshes come first.  Every hat whose mesh loads is drawn
\* while the item loop visits it, so in the frame every hat draw is before
\* the six body parts and before every overlay, the hats in the order of
\* their items in the list.
C13_HatsDrawnFirst ==
  /\ dpc = "items" =>
       /\ BodyPartDraws(gfx.drawn) \cup OverlayDraws(gfx.drawn) = {}
       /\ Len(gfx.drawn) =
            Len(LoadedHats(SubSeq(CurrentJob.accessories, 1,
                  Len(CurrentJob.accessories) - Len(Unwrap(scene).todo))))
  /\ SceneDone =>
       LET hats == SelectSeq(gfx.drawn, LAMBDA m : m.geom = "hat.obj#0")
           want == LoadedHats(CurrentJob.accessories)
       IN  /\ \A h \in HatDraws(gfx.drawn) :
                \A i \in BodyPartDraws(gfx.drawn) \cup OverlayDraws(gfx.drawn) :
                  h < i
           /\ [i \in DOMAIN hats |-> hats[i].texture]
                = [i \in DOMAIN want |-> HatTexture(want[i])]

\* C13 witness: the frame of a job with an overlay, then a hat, is drawn:
\* the hat is its first draw and the overlay its last.
C13_Witness ==
  /\ SceneDone
  /\ CurrentJob.accessories = << TeeOk, HatOk >>
  /\ Len(gfx.drawn) = 8
  /\ gfx.drawn[1].geom = "hat.obj#0"
  /\ gfx.drawn[8].geom = "tshirt"

\* The torso colours of the second run.
TorsoColours == { 0, 16777215 }

\* The frame of the run that differs from the job in `work` only in the
\* torso's resolved colour.
OtherTorsoRun(c) ==
  SceneDraws(CurrentJob.accessories, [CurrentJob.colors EXCEPT !.trso = c],
             static_meshes)

\* The last item of a list, of the given type, whose asset loads: a
\* one-item sequence, empty when there is none.
LastLoaded(items, type, kind) ==
  LET ok == SelectSeq(items, LAMBDA it : Loads(it, type, kind))
  IN  IF ok = << >> THEN << >> ELSE << ok[Len(ok)] >>

\* The image of an item composited on the 24-bit colour c.
Composite(item, c) ==
  LET f == Files[FullPath(Unwrap(item.location))]
  IN  << "rgba8", f.w, f.h, replace_transparent_with_color(f.bytes, c) >>

\* The texture of the one draw of a frame with the given geometry.
TextureOf(drawn, geom) ==
  LET i == CHOOSE i \in DOMAIN drawn : drawn[i].geom = geom
  IN  drawn[i].texture

\* C14: with a shirt whose image loads, the torso, the right arm and the
\* left arm each have that image composited on their own resolved colour,
\* and the run that differs only in the torso's resolved colour draws the
\* same frame but for the torso: same arms, legs, head, overlays.
C14_ShirtCompositesAreIndependent ==
  SceneDone =>
    LET shirt == LastLoaded(CurrentJob.accessories, 5, "image")
        c == CurrentJob.colors
    IN  /\ shirt # << >> =>
             /\ TextureOf(gfx.drawn, "torso") = Composite(shirt[1], c.trso)
             /\ TextureOf(gfx.drawn, "rightarm") = Composite(shirt[1], c.rarm)
             /\ TextureOf(gfx.drawn, "leftarm") = Composite(shirt[1], c.larm)
        /\ \A c2 \in TorsoColours :
             LET other == OtherTorsoRun(c2)
             IN  /\ [i \in DOMAIN other |-> other[i].geom]
                      = [i \in DOMAIN gfx.drawn |-> gfx.drawn[i].geom]
                 /\ SelectSeq(other, LAMBDA m : m.geom # "torso")
                      = SelectSeq(gfx.drawn, LAMBDA m : m.geom # "torso")

\* C14 witness: the frame of an avatar job with a shirt that has transparent
\* pixels is drawn; its three textures differ, and another torso colour
\* gives another torso texture.
C14_Witness ==
  /\ SceneDone
  /\ Unwrap(work).job_type = 1
  /\ CurrentJob.accessories = << ShirtOk >>
  /\ TextureOf(gfx.drawn, "torso") # TextureOf(gfx.drawn, "rightarm")
  /\ TextureOf(gfx.drawn, "rightarm") # TextureOf(gfx.drawn, "leftarm")
  /\ TextureOf(OtherTorsoRun(0), "torso") # TextureOf(gfx.drawn, "torso")

\* The reference value of one colour channel c of a pixel of alpha a on the
\* background channel bg.
ReferenceChannel(c, bg, a) ==
  IF a = 255 THEN c
  ELSE IF a = 0 THEN bg
  ELSE (c * a + bg * (255 - a)) \div 255

\* The call of replace_transparent_with_color has returned.
Recolored == IsSome(recolor) /\ IsSome(Unwrap(recolor).out)

\* C15: replace_transparent_with_color is the reference function on every
\* pixel and background: alpha 255 leaves the four bytes, alpha 0 gives the
\* background with alpha 255, any other alpha a gives
\* floor((c*a + bg*(255-a))/255) in each colour channel and alpha 255.
C15_RecolorIsTheReference ==
  Recolored =>
    LET p == Unwrap(recolor).bytes
        bg == Unwrap(recolor).hex_color
        out == Unwrap(Unwrap(recolor).out)
    IN  out = << ReferenceChannel(p[1], bg \div 65536, p[4]),
                 ReferenceChannel(p[2], (bg \div 256) % 256, p[4]),
                 ReferenceChannel(p[3], bg % 256, p[4]),
                 255 >>

\* C15 witness: a pixel of alpha 127 was blended; its red channel is
\* neither the pixel's nor the background's, and the floor is not the
\* nearest integer.
C15_Witness ==
  /\ Recolored
  /\ Unwrap(recolor).bytes = << 100, 0, 255, 127 >>
  /\ Unwrap(recolor).hex_color = 255 * 65536 + 100 * 256
  /\ Unwrap(Unwrap(recolor).out) = << 177, 50, 127, 255 >>

\* The 16-bit identifiers the palette holds.
PaletteIds == { id \in 0 .. 65535 : IsSome(from_brickcolor(id)) }

\* The colours the palette holds.
PaletteColours == { Unwrap(from_brickcolor(id)) : id \in PaletteIds }

\* The palette's colour for the identifiers of the stored profiles, as
\* written in the table: 1001 is F8F8F8, 21 is C4281C, 1003 is 111111, and
\* 0 is not in the table.
TableColour(id) ==
  CASE id = 1001 -> Some(16316664)
    [] id = 21 -> Some(12855324)
    [] id = 1003 -> Some(1118481)
    [] id = 0 -> None

\* render_scene runs on an avatar request.
AvatarJobRunning ==
  /\ dpc \in {"items", "encode"}
  /\ Unwrap(work).job_type = 1

\* C16: the palette is a function of the identifier alone.  Every
\* identifier has one result, a 24-bit colour for the 182 identifiers of
\* the table and None for all others; and whatever jobs ran before, each
\* colour an avatar job is rendered with is the table's colour for the
\* part's identifier (1001 gives F8F8F8), 0 when the identifier is unknown.
C16_PaletteDependsOnIdentifierOnly ==
  /\ Cardinality(PaletteIds) = 182
  /\ PaletteColours \subseteq 0 .. 16777215
  /\ AvatarJobRunning =>
       LET ids == Unwrap(Unwrap(work).bodycolors)
       IN  \A part \in DOMAIN ids :
             /\ IsSome(TableColour(ids[part])) =>
                  Unwrap(scene).colors[part] = Unwrap(TableColour(ids[part]))
             /\ TableColour(ids[part]) = None =>
                  /\ ids[part] \notin PaletteIds
                  /\ Unwrap(scene).colors[part] = 0

\* C16 witness: an avatar job is rendered after a thumbnail job was; its
\* left arm, of identifier 1001, has the colour F8F8F8.
C16_Witness ==
  /\ AvatarJobRunning
  /\ Len(dequeued) = 2
  /\ Unwrap(hreq[dequeued[1]]).job_type = 2
  /\ Unwrap(Unwrap(work).bodycolors).larm = 1001
  /\ Unwrap(scene).colors.larm = 16316664

\* The item's location is absent or the empty string.
NoLocation(item) == item.location = None \/ item.location = Some("")

\* C17: an item without a location is skipped whatever its type: the frame
\* is the frame of the list without every such item, the default body when
\* the list holds no other item, and while the loop visits such an item it
\* draws nothing.
C17_ItemsWithoutLocationAreSkipped ==
  /\ SceneDone =>
       /\ gfx.drawn = SceneDraws(Without(CurrentJob.accessories, NoLocation),
                                 CurrentJob.colors, static_meshes)
       /\ Without(CurrentJob.accessories, NoLocation) = << >> =>
            gfx.drawn = DefaultBody(CurrentJob.colors,
                                    DefaultFaceOn(CurrentJob.colors.head))
  /\ dpc = "items" =>
       LET seen == SubSeq(CurrentJob.accessories, 1,
                     Len(CurrentJob.accessories) - Len(Unwrap(scene).todo))
       IN  /\ gfx.drawn = LoopDraws(Without(seen, NoLocation))
           /\ Without(seen, NoLocation) = << >> =>
                /\ gfx.drawn = << >>
                /\ [Unwrap(scene) EXCEPT !.todo = CurrentJob.accessories]
                     = SceneLocals(CurrentJob.accessories, CurrentJob.colors,
                                   static_meshes)

\* C17 witness: the frame of a job with an item of an unknown type and no
\* location, then an item of a known type with an empty location, is
\* drawn.
C17_Witness ==
  /\ SceneDone
  /\ CurrentJob.accessories = << UnknownNoLoc, HatEmptyLoc >>
  /\ Len(gfx.drawn) = 6

\* The one head draw of a frame.
HeadDraw(drawn) ==
  drawn[CHOOSE i \in DOMAIN drawn : PartOf(drawn[i].geom) = "head"]

\* The texture of a target: the image of the winning item composited on
\* the colour c, or the default when no item won.
Selected(winner, c, default) ==
  IF winner = << >> THEN default ELSE Composite(winner[1], c)

\* C18: for each target an item can override, the last item of the list
\* whose asset loads wins.  The head mesh is the mesh of the last head item
\* that loads, the face the image of the last face item that loads, the
\* legs the image of the last pants that load, the torso and arms the image
\* of the last shirt that loads, each default where no such item loads; an
\* item that does not load, wherever it stands, changes nothing.
C18_LastLoadedItemWins ==
  SceneDone =>
    LET items == CurrentJob.accessories
        c == CurrentJob.colors
        head == LastLoaded(items, 8, "mesh")
        face == LastLoaded(items, 7, "image")
        pants == LastLoaded(items, 6, "image")
        shirt == LastLoaded(items, 5, "image")
    IN  /\ HeadDraw(gfx.drawn).geom =
             IF head = << >> THEN "default"
             ELSE Files[FullPath(Unwrap(head[1].location))].mesh
        /\ HeadDraw(gfx.drawn).texture =
             Selected(face, c.head, DefaultFaceOn(c.head))
        /\ TextureOf(gfx.drawn, "leftleg") = Selected(pants, c.lleg, Flat(c.lleg))
        /\ TextureOf(gfx.drawn, "rightleg") = Selected(pants, c.rleg, Flat(c.rleg))
        /\ TextureOf(gfx.drawn, "torso") = Selected(shirt, c.trso, Flat(c.trso))
        /\ TextureOf(gfx.drawn, "rightarm") = Selected(shirt, c.rarm, Flat(c.rarm))
        /\ TextureOf(gfx.drawn, "leftarm") = Selected(shirt, c.larm, Flat(c.larm))

\* C18 witness: the frame of an avatar job with two shirts that load is
\* drawn, and its torso has the second shirt, not the first.
C18_Witness ==
  /\ SceneDone
  /\ Unwrap(work).job_type = 1
  /\ CurrentJob.accessories = << ShirtOk, ShirtOk2 >>
  /\ TextureOf(gfx.drawn, "torso")
       = Composite(ShirtOk2, CurrentJob.colors.trso)
  /\ TextureOf(gfx.drawn, "torso")
       # Composite(ShirtOk, CurrentJob.colors.trso)

\* The static meshes as main built them, written out.
StartupMeshes ==
  [head |-> << "default" >>, rarm |-> << "rightarm" >>,
   larm |-> << "leftarm" >>, rleg |-> << "rightleg" >>,
   lleg |-> << "leftleg" >>, trso |-> << "torso" >>,
   tshirt |-> << "tshirt" >>]

\* C19: the static meshes are never modified, and a head swap lasts for its
\* job only: after any sequence of jobs the static meshes are the startup
\* ones, render_scene starts every job from them, and the head a frame
\* draws is the swapped one exactly when the job itself has a head item
\* that loads, the default head otherwise.
C19_HeadSwapLastsOneJob ==
  /\ static_meshes = StartupMeshes
  /\ (dpc = "items" /\ Unwrap(scene).todo = CurrentJob.accessories) =>
       /\ Unwrap(scene).head_mesh_data = << "default" >>
       /\ Unwrap(scene).trso_mesh_data = << "torso" >>
  /\ SceneDone =>
       HeadDraw(gfx.drawn).geom =
         IF LastLoaded(CurrentJob.accessories, 8, "mesh") = << >>
         THEN "default" ELSE "head2.obj#0"

\* C19 witness: after a job whose head item loaded, the frame of a job
\* without a head item is drawn, with the default head.
C19_Witness ==
  /\ SceneDone
  /\ Len(dequeued) = 2
  /\ Unwrap(hreq[dequeued[1]]).accessories = << HeadOk >>
  /\ CurrentJob.accessories = << >>
  /\ HeadDraw(gfx.drawn).geom = "default"

\* The six colours of the neutral palette, BFBFBF each.
NeutralPalette ==
  [part \in {"trso", "head", "lleg", "larm", "rarm", "rleg"} |-> 12566463]

\* render_scene runs, or has drawn the frame, on a thumbnail request.
ThumbnailJobRunning ==
  /\ dpc \in {"items", "encode", "send"}
  /\ Unwrap(work).job_type = 2

\* C20: a thumbnail job is composed with the neutral palette, its six
\* colours BFBFBF, and from the first item of its list alone: the frame is
\* the frame of the one-item list, the later items leave no draw and the
\* loop never visits them.
C20_ThumbnailIsFirstItemOnNeutralPalette ==
  ThumbnailJobRunning =>
    LET first == << Unwrap(work).accessories[1] >>
    IN  /\ IsSome(scene) =>
             /\ Unwrap(scene).colors = NeutralPalette
             /\ Len(Unwrap(scene).todo) <= 1
        /\ SceneDone =>
             /\ gfx.drawn = SceneDraws(first, NeutralPalette, StartupMeshes)
             /\ Len(gfx.drawn) <= 7
             /\ NoLocation(first[1]) =>
                  gfx.drawn = DefaultBody(NeutralPalette, DefaultFaceOn(12566463))
             /\ first = << TeeOk >> =>
                  gfx.drawn = DefaultBody(NeutralPalette, DefaultFaceOn(12566463))
                                \o << [geom |-> "tshirt",
                                       texture |-> RawTexture(TeeOk)] >>

\* C20 witness: the frame of a thumbnail job with an overlay, then a hat,
\* is drawn: seven draws, the flat ones BFBFBF, none of them the hat.
C20_Witness ==
  /\ ThumbnailJobRunning
  /\ SceneDone
  /\ Unwrap(work).accessories = << TeeOk, HatOk >>
  /\ Len(gfx.drawn) = 7
  /\ gfx.drawn[1] = [geom |-> "torso",
                     texture |-> << "rgba8", 1, 1, << 191, 191, 191, 255 >> >>]
  /\ HatDraws(gfx.drawn) = {}

\* The handler's job was popped and answered, and the handler has returned.
Answered(h) ==
  /\ \E i \in DOMAIN dequeued : dequeued[i] = h
  /\ Len(sent[h]) > 0
  /\ hpc[h] = "done"

\* C21: under fair scheduling every handler waiting on a job that is not a
\* thumbnail without items has its job popped and its reply sent, and is
\* released, however many jobs are pending.
C21_EveryJobIsAnswered ==
  \A h \in Handlers :
    (hpc[h] = "waiting" /\ ~EmptyThumbnail(h)) ~> Answered(h)

\* With no thumbnail without items ever submitted, every waiting handler's
\* job is popped and answered.
C21_AnsweredWithoutEmptyThumbnails ==
  [](\A h \in Handlers : ~EmptyThumbnail(h))
    => \A h \in Handlers : (hpc[h] = "waiting") ~> Answered(h)

\* The colour of a body part of identifier id, for the identifiers of the
\* stored profiles, as written in the table: 2 is A1A5A2, 21 is C4281C,
\* 23 is 0D69AC, 24 is F5CD30, 26 is 1B2A35, 28 is 287F47; the default of
\* the colour type, 0, for any other.
PartColour(id) ==
  CASE id = 2 -> 10593698
    [] id = 21 -> 12855324
    [] id = 23 -> 879020
    [] id = 24 -> 16108848
    [] id = 26 -> 1780277
    [] id = 28 -> 2654023
    [] OTHER -> 0

\* The request in `work` is an avatar request with an identifier the
\* palette does not hold.
UnknownIdJob ==
  /\ IsSome(work)
  /\ Unwrap(work).job_type = 1
  /\ \E part \in DOMAIN Unwrap(Unwrap(work).bodycolors) :
       Unwrap(Unwrap(work).bodycolors)[part] \notin PaletteIds

\* C22: an identifier the palette does not hold does not fail an avatar job.
\* The part gets the colour 0, every other part its own colour of the
\* table; the job is rendered, never panics, and its reply is the image
\* text whenever the encoding succeeds.
C22_UnknownIdentifierIsBlack ==
  /\ AvatarJobRunning =>
       LET ids == Unwrap(Unwrap(work).bodycolors)
       IN  \A part \in DOMAIN ids :
             /\ Unwrap(scene).colors[part] = PartColour(ids[part])
             /\ ids[part] \notin PaletteIds => Unwrap(scene).colors[part] = 0
  /\ (UnknownIdJob /\ SceneDone) =>
       /\ Len(gfx.drawn) = 6
       /\ LastLoaded(CurrentJob.accessories, 5, "image") = << >> =>
            TextureOf(gfx.drawn, "torso") = Flat(0)
       /\ LastLoaded(CurrentJob.accessories, 6, "image") = << >> =>
            /\ TextureOf(gfx.drawn, "leftleg") = Flat(0)
            /\ TextureOf(gfx.drawn, "rightleg") = Flat(2654023)
  /\ (UnknownIdJob /\ dpc = "send" /\ Unwrap(png).outcome = "ok") =>
       ~is_empty(Unwrap(result))
  /\ UnknownIdJob => dpc # "panicked"

\* C22 witness: an avatar job whose torso and left leg have unknown
\* identifiers is answered with an image text; its torso is black and its
\* right arm has the right arm's colour.
C22_Witness ==
  /\ UnknownIdJob
  /\ dpc = "finish"
  /\ Unwrap(work).accessories = << >>
  /\ Len(sent[1]) = 1
  /\ ~is_empty(sent[1][1])
  /\ TextureOf(gfx.drawn, "torso") = Flat(0)
  /\ TextureOf(gfx.drawn, "rightarm") = Flat(1780277)

\* The locals of render_scene an item of the given type may assign.
Targets(type) ==
  CASE type = 8 -> { "head_mesh_data" }
    [] type = 7 -> { "face_texture" }
    [] type = 6 -> { "rleg_texture", "lleg_texture" }
    [] type = 5 -> { "trso_texture", "rarm_texture", "larm_texture" }
    [] type = 4 -> { "tshirt_meshes" }
    [] OTHER -> { }

\* C23: each item changes its own targets only.  When the loop visits an
\* item, the locals that differ afterwards are among the targets of the
\* item's type (none for a hat); an overlay item leaves the overlays before
\* it and adds at most one; only a hat issues a draw, and the earlier draws
\* and the static meshes stay.
C23_ItemChangesOnlyItsTargets ==
  [][(dpc = "items" /\ dpc' = "items") =>
       LET s == Unwrap(scene)
           after == Unwrap(scene')
           item == Head(s.todo)
       IN  /\ after.todo = Tail(s.todo)
           /\ \A f \in DOMAIN s \ {"todo"} :
                after[f] # s[f] => f \in Targets(item.item_type)
           /\ Len(after.tshirt_meshes) <= Len(s.tshirt_meshes) + 1
           /\ SubSeq(after.tshirt_meshes, 1, Len(s.tshirt_meshes))
                = s.tshirt_meshes
           /\ item.item_type # 9 => gfx' = gfx
           /\ SubSeq(gfx'.drawn, 1, Len(gfx.drawn)) = gfx.drawn
           /\ static_meshes' = static_meshes]_vars

\* C23 witness: the loop has visited pants that load: the two legs have
\* the pants' image, the torso, the arms, the face, the head mesh and the
\* overlay list are as before the loop.
C23_Witness ==
  /\ dpc = "items"
  /\ Unwrap(work).job_type = 1
  /\ CurrentJob.accessories = << PantsOk, HatOk >>
  /\ Len(Unwrap(scene).todo) = 1
  /\ Unwrap(scene).lleg_texture = Composite(PantsOk, CurrentJob.colors.lleg)
  /\ Unwrap(scene).rleg_texture = Composite(PantsOk, CurrentJob.colors.rleg)
  /\ Unwrap(scene).trso_texture = Flat(CurrentJob.colors.trso)
  /\ Unwrap(scene).rarm_texture = Flat(CurrentJob.colors.rarm)
  /\ Unwrap(scene).face_texture = DefaultFaceOn(CurrentJob.colors.head)
  /\ Unwrap(scene).head_mesh_data = << "default" >>
  /\ Unwrap(scene).tshirt_meshes = << >>

\* The item has a location and a type the loop has no arm for.
UnknownKind(item) == ~NoLocation(item) /\ item.item_type \notin 4 .. 9

\* C24: an item with a location and a type other than 4 to 9 is ignored.
\* The frame is the frame of the list without every such item, the default
\* body when the list holds no other item; the loop goes on to the items
\* after it; the job does not panic and its reply is the image text
\* whenever the encoding succeeds.
C24_UnknownTypeIsIgnored ==
  /\ SceneDone =>
       /\ gfx.drawn = SceneDraws(Without(CurrentJob.accessories, UnknownKind),
                                 CurrentJob.colors, static_meshes)
       /\ Without(CurrentJob.accessories, UnknownKind) = << >> =>
            gfx.drawn = DefaultBody(CurrentJob.colors,
                                    DefaultFaceOn(CurrentJob.colors.head))
  /\ dpc = "send" =>
       (Unwrap(png).outcome = "ok" => ~is_empty(Unwrap(result)))
  /\ dpc = "panicked" => EmptyThumbnail(dequeued[Len(dequeued)])

\* C24 witness: the frame of a job with an item of type 3 whose location
\* holds an image, then a shirt, is drawn: six draws, the torso with the
\* shirt.
C24_Witness ==
  /\ SceneDone
  /\ Unwrap(work).job_type = 1
  /\ CurrentJob.accessories = << UnknownType, ShirtOk >>
  /\ Len(gfx.drawn) = 6
  /\ TextureOf(gfx.drawn, "torso") = Composite(ShirtOk, CurrentJob.colors.trso)

\* A hat with a location whose mesh file is missing or holds no mesh.
HatMeshFails(item) ==
  /\ item.item_type = 9
  /\ ~NoLocation(item)
  /\ FileKind(FullPath(Unwrap(item.location))) # "mesh"

\* A hat whose mesh loads and whose texture file is missing or not an image.
HatOnChecker(item) ==
  /\ Loads(item, 9, "mesh")
  /\ HatTexture(item) = << "file", "checker.png" >>

\* The draws of a frame with the checker texture.
CheckerDraws(drawn) ==
  SelectSeq(drawn, LAMBDA m : m.texture = << "file", "checker.png" >>)

\* C25: the two assets of a hat fail differently.  A hat whose mesh loads
\* is drawn, with the checker texture when its texture file is missing or
\* cannot be decoded; a hat whose mesh file is missing or holds no mesh is
\* not drawn, whatever its texture: the frame is the frame of the list
\* without it.
C25_HatTextureFallsBackMeshDoesNot ==
  SceneDone =>
    LET items == CurrentJob.accessories
    IN  /\ Len(CheckerDraws(gfx.drawn))
             = Len(SelectSeq(items, HatOnChecker))
        /\ \A i \in DOMAIN CheckerDraws(gfx.drawn) :
             CheckerDraws(gfx.drawn)[i].geom = "hat.obj#0"
        /\ Cardinality(HatDraws(gfx.drawn))
             = Len(SelectSeq(items, LAMBDA it : Loads(it, 9, "mesh")))
        /\ gfx.drawn = SceneDraws(Without(items, HatMeshFails),
                                  CurrentJob.colors, static_meshes)
        /\ (\A i \in DOMAIN items : HatMeshFails(items[i])) =>
             gfx.drawn = DefaultBody(CurrentJob.colors,
                                     DefaultFaceOn(CurrentJob.colors.head))

\* C25 witness: the frame of a job with a hat whose texture cannot be
\* decoded, then a hat whose mesh file holds no mesh and whose texture
\* loads, is drawn: the first hat with the checker, the second not at all.
C25_Witness ==
  /\ SceneDone
  /\ CurrentJob.accessories = << HatBadTex, HatEmptyMesh >>
  /\ Len(gfx.drawn) = 7
  /\ gfx.drawn[1] = [geom |-> "hat.obj#0",
                     texture |-> << "file", "checker.png" >>]
  /\ HatDraws(gfx.drawn) = {1}

\* C26: every job that is ever on the work queue has job type 1 or 2, so
\* the dispatcher's arm for other types is never reached: each request a
\* handler built, each request in the channel and the request the render
\* thread holds is of type 1 or 2, a panic of the render thread is on a
\* popped thumbnail job, and a request for another type has the
\* response 400 with no job built.
C26_OnlyKnownJobTypesAreQueued ==
  /\ \A i \in DOMAIN queue : queue[i].job_type \in {1, 2}
  /\ \A h \in Handlers : IsSome(hreq[h]) => Unwrap(hreq[h]).job_type \in {1, 2}
  /\ IsSome(work) => Unwrap(work).job_type \in {1, 2}
  /\ dpc = "panicked" =>
       Unwrap(hreq[dequeued[Len(dequeued)]]).job_type = 2
  /\ \A h \in Handlers :
       response[h] = Some(Response(400, << "Invalid job type" >>)) =>
         /\ hreq[h] = None
         /\ \A i \in DOMAIN arrivals : arrivals[i] # h

\* C26 witness: one handler's request for another job type was turned
\* away with 400 while another handler's thumbnail job is in the channel.
C26_Witness ==
  /\ response[1] = Some(Response(400, << "Invalid job type" >>))
  /\ hreq[1] = None
  /\ Len(queue) = 1
  /\ queue[1].job_type = 2
  /\ queue[1].response_sender = 2

\* The image text of the frame of handler h's own request.
OwnImageText(h) ==
  LET job == Unwrap(JobArgs(Unwrap(hreq[h])))
  IN  << << "b64", "IHDR" >>,
         << "b64", [idat |-> SceneDraws(job.accessories, job.colors,
                                        StartupMeshes)] >> >>

\* C27: replies are never cross-delivered.  Whatever a handler's reply
\* channel carries is the result of the handler's own job, the image text
\* of its own item list and colours or the empty text of a failed
\* encoding, and the body of a 200 response is the handler's own image
\* text, with any number of handlers waiting.
C27_RepliesAreOwnResults ==
  \A h \in Handlers :
    /\ \A i \in DOMAIN sent[h] : sent[h][i] \in { << >>, OwnImageText(h) }
    /\ (IsSome(response[h]) /\ Unwrap(response[h]).status = 200) =>
         Unwrap(response[h]).body = OwnImageText(h)

\* C27 witness: two handlers had jobs with different item lists pending at
\* once, and each has returned 200 with its own image text, the two texts
\* different.
C27_Witness ==
  /\ Len(arrivals) = 2
  /\ dequeued = << 2, 1 >>
  /\ Unwrap(hreq[1]).accessories # Unwrap(hreq[2]).accessories
  /\ IsSome(response[1]) /\ Unwrap(response[1]).status = 200
  /\ IsSome(response[2]) /\ Unwrap(response[2]).status = 200
  /\ Unwrap(response[1]).body = OwnImageText(1)
  /\ Unwrap(response[2]).body = OwnImageText(2)
  /\ Unwrap(response[1]).body # Unwrap(response[2]).body

\* The second call of replace_transparent_with_color has returned.
RecoloredAgain ==
  /\ Recolored
  /\ "again" \in DOMAIN Unwrap(recolor)
  /\ IsSome(Unwrap(recolor).again)

\* C28: the output of replace_transparent_with_color is as long as its
\* input, every whole 4-byte pixel of it has alpha 255 and the bytes after
\* the last whole pixel are the input's; applied again to its own output,
\* with the same or any other background colour, it returns that output.
C28_RecolorIsAbsorbing ==
  /\ Recolored =>
       LET in == Unwrap(recolor).bytes
           out == Unwrap(Unwrap(recolor).out)
       IN  /\ Len(out) = Len(in)
           /\ \A k \in 1 .. (Len(in) \div 4) : out[4 * k] = 255
           /\ \A i \in (4 * (Len(in) \div 4) + 1) .. Len(in) : out[i] = in[i]
  /\ RecoloredAgain =>
       Unwrap(Unwrap(recolor).again).out = Unwrap(Unwrap(recolor).out)

\* C28 witness: a vector of a blended pixel, a transparent pixel and a tail
\* of two bytes was recoloured on one background, changing it, and the
\* output recoloured again on another background, changing nothing.
C28_Witness ==
  /\ RecoloredAgain
  /\ Unwrap(recolor).bytes = << 200, 100, 50, 128, 10, 20, 30, 0, 7, 0 >>
  /\ Unwrap(recolor).hex_color = 255
  /\ Unwrap(Unwrap(recolor).again).hex_color = 255 * 65536
  /\ Unwrap(Unwrap(recolor).out) # Unwrap(recolor).bytes
  /\ Unwrap(Unwrap(recolor).again).out = Unwrap(Unwrap(recolor).out)

=============================================================================
